---------------------------- MODULE Spec2Model ----------------------------
(*
  Dominant-color extraction of ImmichFrame (immichFrame.Web, colorUtils.ts).

  Numbers.  JavaScript numbers are IEEE doubles; here they are fixed-point
  integers:
    - a luminance is an integer number of 1e-9 units (0 .. 10^9);
    - a saturation and a score term are integers in 1e-5 units;
    - HSL arithmetic is done exactly, on rationals kept as numerator and
      denominator, and rounded once where the code calls Math.round.
  Strings are sequences of one-character strings, so that the regular
  expression of hexToRgb and the formatting of rgbToHex are computed.
*)
EXTENDS Integers, Sequences, FiniteSets, TLC

\* ------------------------------------------------------------------------
\* Numeric helpers
\* ------------------------------------------------------------------------
Min(a, b) == IF a < b THEN a ELSE b

Max(a, b) == IF a > b THEN a ELSE b

Abs(a) == IF a < 0 THEN 0 - a ELSE a

Max3(a, b, c) == Max(a, Max(b, c))

Min3(a, b, c) == Min(a, Min(b, c))

\* one unit of luminance is 1e-9, one unit of saturation or score is 1e-5
LumUnit == 10^9

SatUnit == 10^5

\* n/d rounded as Math.round does (half up), for d > 0
RoundDiv(n, d) == (2 * n + d) \div (2 * d)

\* a decimal literal of the source, p/1000, as a luminance
Lum(p) == p * (LumUnit \div 1000)

\* ------------------------------------------------------------------------
\* Strings
\* ------------------------------------------------------------------------
LowerHex == <<"0", "1", "2", "3", "4", "5", "6", "7", "8", "9",
              "a", "b", "c", "d", "e", "f">>

UpperHex == <<"0", "1", "2", "3", "4", "5", "6", "7", "8", "9",
              "A", "B", "C", "D", "E", "F">>

\* the characters the class [a-f\d] accepts under the flag i
IsHexDigit(c) == \E i \in 1..16 : LowerHex[i] = c \/ UpperHex[i] = c

\* parseInt of one hexadecimal digit
HexVal(c) == (CHOOSE i \in 1..16 : LowerHex[i] = c \/ UpperHex[i] = c) - 1

\* Number.prototype.toString(16) of a non-negative integer
RECURSIVE ToString16(_)
ToString16(n) ==
    IF n < 16 THEN <<LowerHex[n + 1]>>
    ELSE ToString16(n \div 16) \o <<LowerHex[(n % 16) + 1]>>

\* the value hexToRgb returns when the regular expression does not match
Null == <<>>

\* colorUtils.ts:378  /^#?([a-f\d]{2})([a-f\d]{2})([a-f\d]{2})$/i
hexToRgb(hex) ==
    LET body == IF Len(hex) > 0 /\ hex[1] = "#" THEN Tail(hex) ELSE hex
    IN  IF Len(body) = 6 /\ \A i \in 1..6 : IsHexDigit(body[i])
        THEN <<16 * HexVal(body[1]) + HexVal(body[2]),
               16 * HexVal(body[3]) + HexVal(body[4]),
               16 * HexVal(body[5]) + HexVal(body[6])>>
        ELSE Null

\* colorUtils.ts:8  the exported hexToRgb, the same regular expression
colorUtilsHexToRgb(hex) ==
    LET body == IF Len(hex) > 0 /\ hex[1] = "#" THEN Tail(hex) ELSE hex
    IN  IF Len(body) = 6 /\ \A i \in 1..6 : IsHexDigit(body[i])
        THEN <<16 * HexVal(body[1]) + HexVal(body[2]),
               16 * HexVal(body[3]) + HexVal(body[4]),
               16 * HexVal(body[5]) + HexVal(body[6])>>
        ELSE Null

\* colorUtils.ts:22  the exported rgbToHex: '#' + [r, g, b].map(..).join('')
\* with x.toString(16) padded to two digits, for integers
colorUtilsRgbToHex(r, g, b) ==
    LET pad(x) == LET hex == ToString16(x)
                  IN  IF Len(hex) = 1 THEN <<"0">> \o hex ELSE hex
    IN  <<"#">> \o pad(r) \o pad(g) \o pad(b)

\* toHex without the padding to two digits
toHexUnpadded(n) == ToString16(n)

\* colorUtils.ts:679  the closure toHex of rgbToHex
toHex(n) ==
    LET hex == ToString16(n)
    IN  IF Len(hex) = 1 THEN <<"0">> \o hex ELSE hex

\* colorUtils.ts:678
rgbToHex(r, g, b) == <<"#">> \o toHex(r) \o toHex(g) \o toHex(b)

\* ------------------------------------------------------------------------
\* Color space math
\* ------------------------------------------------------------------------
\* c -> (c/255 <= 0.03928 ? c/255/12.92 : ((c/255 + 0.055)/1.055)^2.4),
\* tabulated for c = 0..255 in units of 1e-5
Linearize ==
 <<0, 30, 61, 91, 121, 152, 182, 212, 243, 273, 304, 335, 368, 402, 439, 478,
  518, 561, 605, 651, 700, 750, 802, 857, 913, 972, 1033, 1096, 1161, 1229, 1298, 1370,
  1444, 1521, 1600, 1681, 1764, 1850, 1938, 2029, 2122, 2217, 2315, 2416, 2519, 2624, 2732, 2843,
  2956, 3071, 3190, 3310, 3434, 3560, 3689, 3820, 3955, 4092, 4231, 4374, 4519, 4667, 4817, 4971,
  5127, 5286, 5448, 5613, 5781, 5951, 6125, 6301, 6480, 6663, 6848, 7036, 7227, 7421, 7619, 7819,
  8022, 8228, 8438, 8650, 8866, 9084, 9306, 9531, 9759, 9990, 10224, 10462, 10702, 10946, 11193, 11444,
  11697, 11954, 12214, 12477, 12744, 13014, 13287, 13563, 13843, 14126, 14413, 14703, 14996, 15293, 15593, 15896,
  16203, 16513, 16827, 17144, 17465, 17789, 18116, 18447, 18782, 19120, 19462, 19807, 20156, 20508, 20864, 21223,
  21586, 21953, 22323, 22697, 23074, 23455, 23840, 24228, 24620, 25016, 25415, 25818, 26225, 26636, 27050, 27468,
  27889, 28315, 28744, 29177, 29614, 30054, 30499, 30947, 31399, 31855, 32314, 32778, 33245, 33716, 34191, 34670,
  35153, 35640, 36131, 36625, 37124, 37626, 38133, 38643, 39157, 39676, 40198, 40724, 41254, 41789, 42327, 42869,
  43415, 43966, 44520, 45079, 45641, 46208, 46778, 47353, 47932, 48515, 49102, 49693, 50289, 50888, 51492, 52100,
  52712, 53328, 53948, 54572, 55201, 55834, 56471, 57112, 57758, 58408, 59062, 59720, 60383, 61050, 61721, 62396,
  63076, 63760, 64448, 65141, 65837, 66539, 67244, 67954, 68669, 69387, 70110, 70838, 71569, 72306, 73046, 73791,
  74540, 75294, 76052, 76815, 77582, 78354, 79130, 79910, 80695, 81485, 82279, 83077, 83880, 84687, 85499, 86316,
  87137, 87962, 88792, 89627, 90466, 91310, 92158, 93011, 93869, 94731, 95597, 96469, 97345, 98225, 99110, 100000>>

\* colorUtils.ts:664  relative luminance, in units of 1e-9
getLuminance(r, g, b) ==
    2126 * Linearize[r + 1] + 7152 * Linearize[g + 1] + 722 * Linearize[b + 1]

\* colorUtils.ts:498  (max - min)/max, in units of 1e-5
calculateSaturation(r, g, b) ==
    LET max == Max3(r, g, b)
        min == Min3(r, g, b)
    IN  IF max = 0 THEN 0 ELSE ((max - min) * SatUnit) \div max

\* ------------------------------------------------------------------------
\* HSL.  A hue, saturation, lightness triple is kept exactly:
\*   hue (as 6 * h, h in turns) = hn / hd,  s = sn / sd,  l = ln / 510
\* ------------------------------------------------------------------------
\* colorUtils.ts:765
rgbToHsl(r, g, b) ==
    LET max == Max3(r, g, b)
        min == Min3(r, g, b)
        d   == max - min
    IN  IF max = min
        THEN [hn |-> 0, hd |-> 1, sn |-> 0, sd |-> 1, ln |-> max + min]
        ELSE [hn |-> IF max = r THEN (g - b) + (IF g < b THEN 6 * d ELSE 0)
                     ELSE IF max = g THEN (b - r) + 2 * d
                     ELSE (r - g) + 4 * d,
              hd |-> d,
              sn |-> d,
              sd |-> IF max + min > 255 THEN 510 - max - min ELSE max + min,
              ln |-> max + min]

\* colorUtils.ts:797  the closure hue2rgb, times 255 and rounded; p = pn/den,
\* q = qn/den with den = 510 * sd, and t = tn / (6 * hd)
hue2rgb(pn, qn, tn, hd, sd) ==
    LET t1 == IF tn < 0 THEN tn + 6 * hd ELSE tn
        t  == IF t1 > 6 * hd THEN t1 - 6 * hd ELSE t1
        num == IF t < hd THEN pn * hd + (qn - pn) * t
               ELSE IF t < 3 * hd THEN qn * hd
               ELSE IF t < 4 * hd THEN pn * hd + (qn - pn) * (4 * hd - t)
               ELSE pn * hd
    IN  RoundDiv(num, 2 * sd * hd)

\* colorUtils.ts:794
hslToRgb(hsl) ==
    IF hsl.sn = 0
    THEN LET v == RoundDiv(hsl.ln, 2) IN <<v, v, v>>
    ELSE LET qn == IF 2 * hsl.ln < 510
                   THEN hsl.ln * (hsl.sd + hsl.sn)
                   ELSE hsl.ln * hsl.sd + 510 * hsl.sn - hsl.ln * hsl.sn
             pn == 2 * hsl.ln * hsl.sd - qn
         IN  <<hue2rgb(pn, qn, hsl.hn + 2 * hsl.hd, hsl.hd, hsl.sd),
               hue2rgb(pn, qn, hsl.hn, hsl.hd, hsl.sd),
               hue2rgb(pn, qn, hsl.hn - 2 * hsl.hd, hsl.hd, hsl.sd)>>

\* IEEE doubles.  For these calls (r, g, b, channel) of boostColorBrightness
\* on a quantized color of luminance below 0.3 the exact value of the channel
\* times 255 is k + 1/2 and the double computed by hslToRgb lies just under
\* it, so that Math.round yields k where exact arithmetic yields k + 1.
RoundsBelowHalf ==
    { <<0, 24, 192, 2>>, <<0, 120, 192, 2>>, <<24, 0, 192, 1>>,
      <<24, 24, 168, 1>>, <<24, 24, 168, 2>>, <<24, 48, 168, 1>>,
      <<24, 72, 168, 1>>, <<24, 96, 168, 1>>, <<24, 120, 168, 1>>,
      <<24, 120, 168, 2>>, <<24, 144, 168, 1>>, <<24, 168, 24, 1>>,
      <<24, 168, 24, 3>>, <<24, 168, 48, 1>>, <<24, 168, 72, 1>>,
      <<24, 168, 96, 1>>, <<24, 168, 120, 1>>, <<48, 24, 168, 2>>,
      <<48, 72, 144, 2>>, <<48, 168, 24, 3>>, <<72, 24, 168, 2>>,
      <<72, 120, 120, 2>>, <<72, 144, 48, 1>>, <<72, 168, 24, 1>>,
      <<72, 168, 24, 3>>, <<96, 24, 168, 2>>, <<120, 24, 168, 2>>,
      <<120, 72, 120, 3>>, <<120, 120, 72, 1>>, <<144, 24, 168, 2>>,
      <<144, 48, 72, 3>>, <<144, 48, 120, 3>>, <<168, 0, 192, 1>>,
      <<168, 24, 24, 2>>, <<168, 24, 24, 3>>, <<168, 24, 48, 2>>,
      <<168, 24, 72, 2>>, <<168, 24, 72, 3>>, <<168, 24, 96, 2>>,
      <<168, 24, 120, 2>>, <<168, 24, 120, 3>>, <<168, 24, 144, 2>>,
      <<168, 24, 168, 2>>, <<168, 48, 24, 3>>, <<168, 72, 24, 3>>,
      <<168, 96, 24, 3>>, <<168, 120, 24, 3>>, <<168, 144, 24, 3>>,
      <<192, 0, 72, 3>>, <<192, 0, 120, 3>> }

\* colorUtils.ts:550  targetLuminance is given in tenths (0.4 is 4)
boostColorBrightness(r, g, b, targetLuminance) ==
    LET hsl == rgbToHsl(r, g, b)
        lifted == [hsl EXCEPT !.ln = Max(hsl.ln, 51 * targetLuminance)]
        exact == hslToRgb(lifted)
        boostedRgb == [i \in 1..3 |->
                         IF <<r, g, b, i>> \in RoundsBelowHalf
                         THEN exact[i] - 1 ELSE exact[i]]
    IN  <<Min(255, Max(0, boostedRgb[1])),
          Min(255, Max(0, boostedRgb[2])),
          Min(255, Max(0, boostedRgb[3]))>>

\* ------------------------------------------------------------------------
\* Pixel sources.  A canvas of sampleSize x sampleSize pixels holds a
\* picture after drawImage; a pixel is <<r, g, b, alpha>>.
\* ------------------------------------------------------------------------
\* the pixel of picture pic at column x, row y of a size x size canvas
PixelAt(pic, size, x, y) ==
    CASE pic.kind = "uniform"   -> pic.a
      [] pic.kind = "split"     -> IF 2 * x < size THEN pic.a ELSE pic.b
      [] pic.kind = "letterbox" -> IF 5 * x < size \/ 5 * x >= 4 * size
                                   THEN pic.a ELSE pic.b
      [] pic.kind = "sky"       -> IF 100 * y < 67 * size THEN pic.a ELSE pic.b

\* CanvasRenderingContext2D.getImageData(sx, sy, sw, sh): the ImageData is
\* the view of the canvas it copies; a zero width or height raises
\* IndexSizeError, a tainted canvas raises SecurityError
getImageDataThrows(ctx, sw, sh) == ctx.readFault \/ sw = 0 \/ sh = 0

getImageData(ctx, sx, sy, sw, sh) ==
    [pic |-> ctx.pic, size |-> ctx.size, sx |-> sx, sy |-> sy,
     sw |-> sw, sh |-> sh]

\* pixel k of imageData.data (bytes 4k .. 4k+3), rows first
DataPixel(imageData, k) ==
    PixelAt(imageData.pic, imageData.size,
            imageData.sx + (k % imageData.sw),
            imageData.sy + (k \div imageData.sw))

\* the number of pixels of imageData (data.length / 4)
DataPixels(imageData) == imageData.sw * imageData.sh

\* ------------------------------------------------------------------------
\* Frequency analyzer.  A Map is the sequence of its values in insertion
\* order, which is the order a for-of loop visits them.
\* ------------------------------------------------------------------------
MapHas(colorMap, rgb) == \E j \in 1..Len(colorMap) : colorMap[j].rgb = rgb

MapIndex(colorMap, rgb) == CHOOSE j \in 1..Len(colorMap) : colorMap[j].rgb = rgb

\* ScanPixel without count++ on a key the map holds
ScanPixelCountsOnce(colorMap, px, ignoreBlackBackground) ==
    LET key == <<(px[1] \div 24) * 24, (px[2] \div 24) * 24, (px[3] \div 24) * 24>>
    IN  IF px[4] < 128 THEN colorMap
        ELSE IF ignoreBlackBackground /\ px[1] < 30 /\ px[2] < 30 /\ px[3] < 30
        THEN colorMap
        ELSE IF MapHas(colorMap, key) THEN colorMap
        ELSE Append(colorMap,
                    [count |-> 1, rgb |-> key,
                     luminance |-> getLuminance(key[1], key[2], key[3]),
                     saturation |-> calculateSaturation(key[1], key[2], key[3])])

\* ScanPixel without the near-black filter
ScanPixelKeepsBlack(colorMap, px, ignoreBlackBackground) ==
    LET key == <<(px[1] \div 24) * 24, (px[2] \div 24) * 24, (px[3] \div 24) * 24>>
    IN  IF px[4] < 128 THEN colorMap
        ELSE IF MapHas(colorMap, key)
        THEN [colorMap EXCEPT ![MapIndex(colorMap, key)].count = @ + 1]
        ELSE Append(colorMap,
                    [count |-> 1, rgb |-> key,
                     luminance |-> getLuminance(key[1], key[2], key[3]),
                     saturation |-> calculateSaturation(key[1], key[2], key[3])])

\* colorUtils.ts:459  one iteration of the sampling loop on pixel k
ScanPixel(colorMap, px, ignoreBlackBackground) ==
    LET r == px[1]
        g == px[2]
        b == px[3]
        alpha == px[4]
        quantizedR == (r \div 24) * 24
        quantizedG == (g \div 24) * 24
        quantizedB == (b \div 24) * 24
        key == <<quantizedR, quantizedG, quantizedB>>
    IN  IF alpha < 128 THEN colorMap
        ELSE IF ignoreBlackBackground /\ r < 30 /\ g < 30 /\ b < 30
        THEN colorMap
        ELSE IF MapHas(colorMap, key)
        THEN [colorMap EXCEPT ![MapIndex(colorMap, key)].count = @ + 1]
        ELSE Append(colorMap,
                    [count |-> 1, rgb |-> key,
                     luminance |-> getLuminance(quantizedR, quantizedG, quantizedB),
                     saturation |-> calculateSaturation(quantizedR, quantizedG, quantizedB)])

\* the number of samples the loop examines
Examined(imageData) == (DataPixels(imageData) + 3) \div 4

\* colorUtils.ts:458  for (let i = 0; i < data.length; i += 16): the
\* iterations on samples lo .. hi-1 in order (sample j is pixel 4j), the
\* range being halved to keep the evaluation shallow
RECURSIVE ScanRange(_, _, _, _, _)
ScanRange(imageData, ignoreBlackBackground, lo, hi, colorMap) ==
    IF lo >= hi THEN colorMap
    ELSE IF hi = lo + 1
    THEN ScanPixel(colorMap, DataPixel(imageData, 4 * lo), ignoreBlackBackground)
    ELSE LET mid == (lo + hi) \div 2
             first == ScanRange(imageData, ignoreBlackBackground, lo, mid,
                                colorMap)
         IN  IF Len(first) >= 0
             THEN ScanRange(imageData, ignoreBlackBackground, mid, hi, first)
             ELSE first

\* the whole loop, from an empty map
ScanFrom(imageData, ignoreBlackBackground, k, colorMap) ==
    ScanRange(imageData, ignoreBlackBackground, k, Examined(imageData), colorMap)

\* ------------------------------------------------------------------------
\* Options.  A ColorExtractionOptions object is a function from the keys it
\* holds to their values; fallbackColor may be held with the value undefined.
\* ------------------------------------------------------------------------
Undefined == <<"undefined">>

EmptyString == <<>>

\* options.key ?? default, and the default of a destructuring pattern
Opt(options, key, default) ==
    IF key \in DOMAIN options THEN options[key] ELSE default

\* options.fallbackColor ?? default, and const { fallbackColor = default }
FallbackOrDefault(options, default) ==
    IF "fallbackColor" \in DOMAIN options /\ options["fallbackColor"] # Undefined
    THEN options["fallbackColor"] ELSE default

\* the truth value of options.fallbackColor
FallbackTruthy(options) ==
    /\ "fallbackColor" \in DOMAIN options
    /\ options["fallbackColor"] # Undefined
    /\ options["fallbackColor"] # EmptyString

\* options.fallbackColor || default
FallbackOr(options, default) ==
    IF FallbackTruthy(options) THEN options["fallbackColor"] ELSE default

\* the truth value of options.useFallbackOnly
UseFallbackOnly(options) == Opt(options, "useFallbackOnly", FALSE)

\* '#4a5568' and '#6b7280'
Slate == <<"#", "4", "a", "5", "5", "6", "8">>

Gray == <<"#", "6", "b", "7", "2", "8", "0">>

\* ------------------------------------------------------------------------
\* Results.  An outcome is what a call did: whether an exception left it,
\* the value returned (a sequence of zero or one ExtractedColor), the number
\* of drawImage calls, the regions read with getImageData, the number of
\* samples the scan loops examined and the frequency tables they built.
\* ------------------------------------------------------------------------
Returns(color, draws, reads) ==
    [threw |-> FALSE, color |-> <<color>>, draws |-> draws,
     regions |-> reads.regions, scanned |-> reads.scanned,
     tables |-> reads.tables]

Throws(draws) ==
    [threw |-> TRUE, color |-> <<>>, draws |-> draws,
     regions |-> <<>>, scanned |-> 0, tables |-> <<>>]

\* nothing read from the canvas
NoReads == [regions |-> <<>>, scanned |-> 0, tables |-> <<>>]

Region(imageData) ==
    <<imageData.sx, imageData.sy, imageData.sw, imageData.sh>>

\* colorUtils.ts:357
createFallbackColor(fallbackHex) ==
    LET rgb == hexToRgb(fallbackHex)
    IN  IF rgb = Null
        THEN [hex |-> Gray, rgb |-> <<107, 114, 128>>, luminance |-> Lum(400)]
        ELSE [hex |-> fallbackHex, rgb |-> rgb,
              luminance |-> getLuminance(rgb[1], rgb[2], rgb[3])]

\* colorUtils.ts:444
analyzeImageData(imageData, options) ==
    ScanFrom(imageData, Opt(options, "ignoreBlackBackground", TRUE), 0, <<>>)

\* ------------------------------------------------------------------------
\* Optimal color selector.  A candidate or null is a sequence of zero or one
\* entry of the map.
\* ------------------------------------------------------------------------
\* colorUtils.ts:531  the composite score of one entry, in units of 1e-7
totalScore(colorData) ==
    LET lum == colorData.luminance \div (LumUnit \div SatUnit)
        frequencyScore == Min(colorData.count * (SatUnit \div 10), SatUnit)
        saturationScore == Min((colorData.saturation * 3) \div 2, SatUnit)
        luminanceScore == SatUnit - Abs(lum - SatUnit \div 2)
        darknessBonus == IF colorData.luminance > Lum(250) THEN 12 ELSE 10
    IN  (frequencyScore * 4 + saturationScore * 3 + luminanceScore * 3)
          * darknessBonus

\* BestFrom without the luminance bounds
RECURSIVE BestFromUnbounded(_, _, _, _, _, _)
BestFromUnbounded(colorMap, minLuminance, maxLuminance, j, bestColor, bestScore) ==
    IF j > Len(colorMap) THEN bestColor
    ELSE IF totalScore(colorMap[j]) > bestScore
    THEN BestFromUnbounded(colorMap, minLuminance, maxLuminance, j + 1,
                           <<colorMap[j]>>, totalScore(colorMap[j]))
    ELSE BestFromUnbounded(colorMap, minLuminance, maxLuminance, j + 1,
                           bestColor, bestScore)

\* colorUtils.ts:519  the loop of findOptimalColor from entry j on
RECURSIVE BestFrom(_, _, _, _, _, _)
BestFrom(colorMap, minLuminance, maxLuminance, j, bestColor, bestScore) ==
    IF j > Len(colorMap) THEN bestColor
    ELSE LET colorData == colorMap[j]
         IN  IF colorData.luminance < minLuminance
                \/ colorData.luminance > maxLuminance
             THEN BestFrom(colorMap, minLuminance, maxLuminance, j + 1,
                           bestColor, bestScore)
             ELSE IF totalScore(colorData) > bestScore
             THEN BestFrom(colorMap, minLuminance, maxLuminance, j + 1,
                           <<colorData>>, totalScore(colorData))
             ELSE BestFrom(colorMap, minLuminance, maxLuminance, j + 1,
                           bestColor, bestScore)

\* findOptimalColor with an initial best score of 0.5
findOptimalColorHighBar(colorMap, minLuminance, maxLuminance, enableContrastBoost) ==
    BestFrom(colorMap, minLuminance, maxLuminance, 1, <<>>, 5000000)

\* colorUtils.ts:510
findOptimalColor(colorMap, minLuminance, maxLuminance, enableContrastBoost) ==
    BestFrom(colorMap, minLuminance, maxLuminance, 1, <<>>, 0)

\* the final fallback accepting only a color counted more than once
RECURSIVE MostFrequentFromRepeated(_, _, _, _)
MostFrequentFromRepeated(colorMap, j, bestColor, maxCount) ==
    IF j > Len(colorMap) THEN bestColor
    ELSE IF colorMap[j].count > maxCount + 1
    THEN MostFrequentFromRepeated(colorMap, j + 1, <<colorMap[j]>>,
                                  colorMap[j].count)
    ELSE MostFrequentFromRepeated(colorMap, j + 1, bestColor, maxCount)

\* colorUtils.ts:316  the final fallback to the most frequent color
RECURSIVE MostFrequentFrom(_, _, _, _)
MostFrequentFrom(colorMap, j, bestColor, maxCount) ==
    IF j > Len(colorMap) THEN bestColor
    ELSE IF colorMap[j].count > maxCount
    THEN MostFrequentFrom(colorMap, j + 1, <<colorMap[j]>>, colorMap[j].count)
    ELSE MostFrequentFrom(colorMap, j + 1, bestColor, maxCount)

\* a region score that prefers the duller half
regionScoreInverted(best) ==
    LET lum == best.luminance \div (LumUnit \div SatUnit)
    IN  0 - (best.saturation * 6 + (SatUnit - Abs(lum - SatUnit \div 2)) * 4)

\* colorUtils.ts:414  saturation * 0.6 + (1 - |luminance - 0.5|) * 0.4,
\* in units of 1e-6
regionScore(best) ==
    LET lum == best.luminance \div (LumUnit \div SatUnit)
    IN  best.saturation * 6 + (SatUnit - Abs(lum - SatUnit \div 2)) * 4

\* the ExtractedColor built from a candidate without recomputation
\* (colorUtils.ts:420 and :431)
CandidateColor(best) ==
    [hex |-> rgbToHex(best.rgb[1], best.rgb[2], best.rgb[3]),
     rgb |-> best.rgb,
     luminance |-> best.luminance]

\* colorUtils.ts:390
extractFromSplitView(ctx, sampleSize, options) ==
    LET halfWidth == sampleSize \div 2
        leftLowerThird == (sampleSize * 67) \div 100
        height == sampleSize - leftLowerThird
        leftData == getImageData(ctx, 0, leftLowerThird, halfWidth, height)
        rightData == getImageData(ctx, halfWidth, leftLowerThird, halfWidth, height)
        leftColors == analyzeImageData(leftData, options)
        rightColors == analyzeImageData(rightData, options)
        leftBest == findOptimalColor(leftColors,
                                     Opt(options, "minLuminance", Lum(200)),
                                     Opt(options, "maxLuminance", Lum(850)),
                                     Opt(options, "enableContrastBoost", TRUE))
        rightBest == findOptimalColor(rightColors,
                                      Opt(options, "minLuminance", Lum(200)),
                                      Opt(options, "maxLuminance", Lum(850)),
                                      Opt(options, "enableContrastBoost", TRUE))
        reads == [regions |-> <<Region(leftData), Region(rightData)>>,
                  scanned |-> Examined(leftData) + Examined(rightData),
                  tables |-> <<leftColors, rightColors>>]
    IN  IF getImageDataThrows(ctx, halfWidth, height)
        THEN Throws(0)
        ELSE IF leftBest # <<>> /\ rightBest # <<>>
        THEN LET leftScore == regionScore(leftBest[1])
                 rightScore == regionScore(rightBest[1])
                 winner == IF leftScore > rightScore
                           THEN leftBest[1] ELSE rightBest[1]
             IN  Returns(CandidateColor(winner), 0, reads)
        ELSE LET bestColor == IF leftBest # <<>> THEN leftBest ELSE rightBest
             IN  IF bestColor # <<>>
                 THEN Returns(CandidateColor(bestColor[1]), 0, reads)
                 ELSE Returns(createFallbackColor(FallbackOrDefault(options, Slate)),
                              0, reads)

\* ------------------------------------------------------------------------
\* Extraction orchestrator.  An element is a record
\*   [kind, width, height, complete, readyState, url, loadable, pic]
\* (width and height are videoWidth/videoHeight or naturalWidth/
\* naturalHeight) and env tells what the browser does:
\*   [noContext, drawFault, readFault].
\* ------------------------------------------------------------------------
\* width / height < 1 in doubles (0/0 is NaN, n/0 is Infinity)
AspectBelowOne(width, height) == height > 0 /\ width < height

\* AspectAboveSplit with the threshold 3
AspectAboveThree(width, height) ==
    \/ height > 0 /\ width > 3 * height
    \/ height = 0 /\ width > 0

\* width / height > 2.5 in doubles
AspectAboveSplit(width, height) ==
    \/ height > 0 /\ 2 * width > 5 * height
    \/ height = 0 /\ width > 0

\* CanvasRenderingContext2D.drawImage: the canvas holds the picture of the
\* element; a source without pixels leaves the canvas transparent black
Drawn(element) ==
    IF element.width = 0 \/ element.height = 0
    THEN [kind |-> "uniform", a |-> <<0, 0, 0, 0>>, b |-> <<0, 0, 0, 0>>]
    ELSE element.pic

\* colorUtils.ts:326  the result built from the chosen candidate
FinalColor(bestColor, enableContrastBoost) ==
    LET r == bestColor.rgb[1]
        g == bestColor.rgb[2]
        b == bestColor.rgb[3]
        finalRgb == IF enableContrastBoost /\ bestColor.luminance < Lum(300)
                    THEN boostColorBrightness(r, g, b, 4)
                    ELSE <<r, g, b>>
    IN  [hex |-> rgbToHex(finalRgb[1], finalRgb[2], finalRgb[3]),
         rgb |-> finalRgb,
         luminance |-> getLuminance(finalRgb[1], finalRgb[2], finalRgb[3])]

\* colorUtils.ts:307  the three tiers of the selector
SelectColor(colorMap, minLuminance, maxLuminance, enableContrastBoost) ==
    LET strict == findOptimalColor(colorMap, minLuminance, maxLuminance,
                                   enableContrastBoost)
        relaxed == IF strict # <<>> THEN strict
                   ELSE findOptimalColor(colorMap, Lum(100), Lum(900),
                                         enableContrastBoost)
    IN  IF relaxed # <<>> THEN relaxed
        ELSE MostFrequentFrom(colorMap, 1, <<>>, 0)

\* colorUtils.ts:209  the body of the try block of extractDominantColor
TryBlock(element, options, env) ==
    LET sampleSize == Opt(options, "sampleSize", 50)
        fallbackColor == FallbackOrDefault(options, Slate)
        sampleLowerThird == Opt(options, "sampleLowerThird", TRUE)
        analyzePortraitVideo == Opt(options, "analyzePortraitVideo", TRUE)
        handleSplitView == Opt(options, "handleSplitView", TRUE)
        ignoreBlackBackground == Opt(options, "ignoreBlackBackground", TRUE)
        enableContrastBoost == Opt(options, "enableContrastBoost", TRUE)
        minLuminance == Opt(options, "minLuminance", Lum(200))
        maxLuminance == Opt(options, "maxLuminance", Lum(850))
        minSaturation == Opt(options, "minSaturation", 15000)
        maxSaturation == Opt(options, "maxSaturation", SatUnit)
        maxDarkness == Opt(options, "maxDarkness", Lum(700))
        videoBranch == element.kind = "video" /\ analyzePortraitVideo
        imageBranch == ~videoBranch /\ element.kind = "image"
        isPortraitVideo == videoBranch
                           /\ AspectBelowOne(element.width, element.height)
        isSplitView == imageBranch /\ handleSplitView
                       /\ AspectAboveSplit(element.width, element.height)
        ctx == [pic |-> Drawn(element), size |-> sampleSize,
                readFault |-> env.readFault]
        centerWidth == (sampleSize * 6) \div 10
        centerHeight == (sampleSize * 8) \div 10
        offsetX == (sampleSize - centerWidth) \div 2
        offsetY == (sampleSize - centerHeight) \div 2
        lowerThirdStart == (sampleSize * 67) \div 100
        lowerThirdHeight == sampleSize - lowerThirdStart
        imageData ==
            IF isPortraitVideo /\ ignoreBlackBackground
            THEN getImageData(ctx, offsetX, offsetY, centerWidth, centerHeight)
            ELSE IF sampleLowerThird
            THEN getImageData(ctx, 0, lowerThirdStart, sampleSize, lowerThirdHeight)
            ELSE getImageData(ctx, 0, 0, sampleSize, sampleSize)
        colorMap == ScanFrom(imageData, ignoreBlackBackground, 0, <<>>)
        bestColor == SelectColor(colorMap, minLuminance, maxLuminance,
                                 enableContrastBoost)
        split == extractFromSplitView(ctx, sampleSize, options)
        reads == [regions |-> <<Region(imageData)>>,
                  scanned |-> Examined(imageData),
                  tables |-> <<colorMap>>]
    IN  IF imageBranch /\ (~element.complete \/ element.height = 0)
        THEN Throws(0)
        ELSE IF env.drawFault
        THEN Throws(0)
        ELSE IF ~(isPortraitVideo /\ ignoreBlackBackground)
                /\ isSplitView /\ handleSplitView
        THEN [split EXCEPT !.draws = 1]
        ELSE IF getImageDataThrows(ctx, imageData.sw, imageData.sh)
        THEN Throws(1)
        ELSE IF bestColor # <<>>
        THEN Returns(FinalColor(bestColor[1], enableContrastBoost), 1, reads)
        ELSE Returns(createFallbackColor(fallbackColor), 1, reads)

\* extractDominantColor without its catch clause
extractDominantColorUncaught(element, options, env) ==
    IF env.noContext
    THEN Returns(createFallbackColor(FallbackOrDefault(options, Slate)), 0, NoReads)
    ELSE TryBlock(element, options, env)

\* colorUtils.ts:179
extractDominantColor(element, options, env) ==
    LET fallbackColor == FallbackOrDefault(options, Slate)
        body == TryBlock(element, options, env)
    IN  IF env.noContext
        THEN Returns(createFallbackColor(fallbackColor), 0, NoReads)
        ELSE IF body.threw
        THEN Returns(createFallbackColor(fallbackColor), body.draws, NoReads)
        ELSE body

\* ------------------------------------------------------------------------
\* The simple version of the module (part_000): extractDominantColor(element,
\* sampleSize) without options.  An entry of its map holds count and rgb.
\* ------------------------------------------------------------------------
\* part_000:24 and :118  the literal returned without a 2D context and from
\* the catch clause
SlateLiteral == [hex |-> Slate, rgb |-> <<74, 85, 104>>, luminance |-> Lum(300)]

\* simpleScanPixel with the buckets of the enhanced version
simpleScanPixelFine(colorMap, px) ==
    LET key == <<(px[1] \div 24) * 24, (px[2] \div 24) * 24, (px[3] \div 24) * 24>>
    IN  IF px[4] < 128 THEN colorMap
        ELSE IF MapHas(colorMap, key)
        THEN [colorMap EXCEPT ![MapIndex(colorMap, key)].count = @ + 1]
        ELSE Append(colorMap, [count |-> 1, rgb |-> key])

\* part_000:58  one iteration of the sampling loop
simpleScanPixel(colorMap, px) ==
    LET r == px[1]
        g == px[2]
        b == px[3]
        alpha == px[4]
        quantizedR == (r \div 32) * 32
        quantizedG == (g \div 32) * 32
        quantizedB == (b \div 32) * 32
        key == <<quantizedR, quantizedG, quantizedB>>
    IN  IF alpha < 128 THEN colorMap
        ELSE IF MapHas(colorMap, key)
        THEN [colorMap EXCEPT ![MapIndex(colorMap, key)].count = @ + 1]
        ELSE Append(colorMap, [count |-> 1, rgb |-> key])

\* part_000:57  for (let i = 0; i < data.length; i += 16), the range being
\* halved as in ScanRange
RECURSIVE simpleScanRange(_, _, _, _)
simpleScanRange(imageData, lo, hi, colorMap) ==
    IF lo >= hi THEN colorMap
    ELSE IF hi = lo + 1
    THEN simpleScanPixel(colorMap, DataPixel(imageData, 4 * lo))
    ELSE LET mid == (lo + hi) \div 2
             first == simpleScanRange(imageData, lo, mid, colorMap)
         IN  IF Len(first) >= 0
             THEN simpleScanRange(imageData, mid, hi, first)
             ELSE first

\* part_000:85  the most frequent color that is neither too dark nor too
\* light
RECURSIVE simpleSuitableFrom(_, _, _)
simpleSuitableFrom(colorMap, j, dominantColor) ==
    IF j > Len(colorMap) THEN dominantColor
    ELSE LET colorData == colorMap[j]
             luminance == getLuminance(colorData.rgb[1], colorData.rgb[2],
                                       colorData.rgb[3])
         IN  IF /\ luminance > Lum(100)
                /\ luminance < Lum(800)
                /\ colorData.count > dominantColor.count
             THEN simpleSuitableFrom(colorMap, j + 1, colorData)
             ELSE simpleSuitableFrom(colorMap, j + 1, dominantColor)

\* part_000:96  any most frequent color
RECURSIVE simpleDominantFrom(_, _, _)
simpleDominantFrom(colorMap, j, dominantColor) ==
    IF j > Len(colorMap) THEN dominantColor
    ELSE IF colorMap[j].count > dominantColor.count
    THEN simpleDominantFrom(colorMap, j + 1, colorMap[j])
    ELSE simpleDominantFrom(colorMap, j + 1, dominantColor)

\* part_000:14
simpleExtractDominantColor(element, sampleSize, env) ==
    LET ctx == [pic |-> Drawn(element), size |-> sampleSize,
                readFault |-> env.readFault]
        imageData == getImageData(ctx, 0, 0, sampleSize, sampleSize)
        colorMap == simpleScanRange(imageData, 0, Examined(imageData), <<>>)
        initial == [count |-> 0, rgb |-> <<74, 85, 104>>]
        suitable == simpleSuitableFrom(colorMap, 1, initial)
        dominantColor == IF suitable.count = 0
                         THEN simpleDominantFrom(colorMap, 1, suitable)
                         ELSE suitable
        r == dominantColor.rgb[1]
        g == dominantColor.rgb[2]
        b == dominantColor.rgb[3]
    IN  IF env.noContext THEN SlateLiteral
        ELSE IF element.kind = "image"
                /\ (~element.complete \/ element.height = 0)
        THEN SlateLiteral
        ELSE IF env.drawFault THEN SlateLiteral
        ELSE IF getImageDataThrows(ctx, sampleSize, sampleSize) THEN SlateLiteral
        ELSE [hex |-> rgbToHex(r, g, b), rgb |-> <<r, g, b>>,
              luminance |-> getLuminance(r, g, b)]

\* colorUtils.ts:648  the object literal { fallbackColor: ..., ...options }
VideoExtractionOptions(options) ==
    options @@ [fallbackColor |-> FallbackOr(options, Slate),
                enableContrastBoost |-> TRUE,
                ignoreBlackBackground |-> TRUE,
                minLuminance |-> Lum(250),
                maxLuminance |-> Lum(800),
                analyzePortraitVideo |-> TRUE]

\* extractColorFromVideo without the fallback-only short circuit
extractColorFromVideoAlwaysAnalyses(videoElement, options, env) ==
    IF videoElement.readyState < 2
    THEN Returns(createFallbackColor(FallbackOr(options, Slate)), 0, NoReads)
    ELSE extractDominantColor(videoElement, VideoExtractionOptions(options), env)

\* extractColorFromVideo without the readiness check
extractColorFromVideoUnready(videoElement, options, env) ==
    IF UseFallbackOnly(options) /\ FallbackTruthy(options)
    THEN Returns(createFallbackColor(options["fallbackColor"]), 0, NoReads)
    ELSE extractDominantColor(videoElement, VideoExtractionOptions(options), env)

\* colorUtils.ts:636
extractColorFromVideo(videoElement, options, env) ==
    IF UseFallbackOnly(options) /\ FallbackTruthy(options)
    THEN Returns(createFallbackColor(options["fallbackColor"]), 0, NoReads)
    ELSE IF videoElement.readyState < 2
    THEN Returns(createFallbackColor(FallbackOr(options, Slate)), 0, NoReads)
    ELSE extractDominantColor(videoElement, VideoExtractionOptions(options), env)

\* ImageExtractionOptions with the default of the video entry point
ImageExtractionOptionsSlate(options) ==
    options @@ [fallbackColor |-> FallbackOr(options, Slate),
                enableContrastBoost |-> TRUE,
                ignoreBlackBackground |-> TRUE]

\* colorUtils.ts:602  the object literal { fallbackColor: ..., ...options }
ImageExtractionOptions(options) ==
    options @@ [fallbackColor |-> FallbackOr(options, Gray),
                enableContrastBoost |-> TRUE,
                ignoreBlackBackground |-> TRUE]

\* colorUtils.ts:573  the part of the promise executor that settles at once:
\* TRUE when the executor resolves with the fallback and returns
SettlesAtOnce(imageUrl, options) ==
    \/ UseFallbackOnly(options) /\ FallbackTruthy(options)
    \/ imageUrl = EmptyString /\ FallbackTruthy(options)

\* colorUtils.ts:600  img.onload; the image element is complete
onload(img, options, env) ==
    extractDominantColor(img, ImageExtractionOptions(options), env)

\* ------------------------------------------------------------------------
\* Contrast and text color.  A contrast ratio is an integer number of
\* thousandths (21:1 is 21000), computed on luminances in units of 1e-5.
\* ------------------------------------------------------------------------
HexWhite == <<"#", "f", "f", "f", "f", "f", "f">>

HexBlack == <<"#", "0", "0", "0", "0", "0", "0">>

\* String.prototype.replace('#', ''): the first '#' is removed
RemoveHash(color) ==
    IF \E i \in 1..Len(color) : color[i] = "#"
    THEN LET i == CHOOSE i \in 1..Len(color) :
                    color[i] = "#" /\ \A j \in 1..(i - 1) : color[j] # "#"
         IN  SubSeq(color, 1, i - 1) \o SubSeq(color, i + 1, Len(color))
    ELSE color

\* parseInt(hex.substr(at, 2), 16) for two hexadecimal digits
ParseByte(hex, at) == 16 * HexVal(hex[at + 1]) + HexVal(hex[at + 2])

\* colorUtils.ts:690  (brighter + 0.05) / (darker + 0.05), for two strings
\* '#rrggbb'
getContrastRatio(color1, color2) ==
    LET hex1 == RemoveHash(color1)
        hex2 == RemoveHash(color2)
        luminance1 == getLuminance(ParseByte(hex1, 0), ParseByte(hex1, 2),
                                   ParseByte(hex1, 4)) \div (LumUnit \div SatUnit)
        luminance2 == getLuminance(ParseByte(hex2, 0), ParseByte(hex2, 2),
                                   ParseByte(hex2, 4)) \div (LumUnit \div SatUnit)
        brighter == Max(luminance1, luminance2)
        darker == Min(luminance1, luminance2)
    IN  ((brighter + SatUnit \div 20) * 1000) \div (darker + SatUnit \div 20)

\* generateTextColor with the comparison of its last branch reversed
generateTextColorLowerRatio(backgroundColor) ==
    LET whiteContrast == getContrastRatio(backgroundColor, HexWhite)
        blackContrast == getContrastRatio(backgroundColor, HexBlack)
    IN  IF whiteContrast >= 7000 THEN HexWhite
        ELSE IF blackContrast >= 7000 THEN HexBlack
        ELSE IF whiteContrast > blackContrast THEN HexBlack ELSE HexWhite

\* generateTextColor without the comparison of its last branch
generateTextColorWhiteFirst(backgroundColor) ==
    LET whiteContrast == getContrastRatio(backgroundColor, HexWhite)
    IN  IF whiteContrast >= 7000 THEN HexWhite ELSE HexBlack

\* colorUtils.ts:714
generateTextColor(backgroundColor) ==
    LET whiteContrast == getContrastRatio(backgroundColor, HexWhite)
        blackContrast == getContrastRatio(backgroundColor, HexBlack)
    IN  IF whiteContrast >= 7000 THEN HexWhite
        ELSE IF blackContrast >= 7000 THEN HexBlack
        ELSE IF whiteContrast > blackContrast THEN HexWhite ELSE HexBlack

\* ------------------------------------------------------------------------
\* Inputs
\* ------------------------------------------------------------------------
\* an explicit sampleSize besides the default 50 and the degenerate 1
SmallSampleSize == 6

Black == <<0, 0, 0, 255>>

NearBlack == <<20, 25, 29, 255>>

Navy == <<0, 0, 60, 255>>

Blue == <<40, 120, 255, 255>>

MidGray == <<128, 128, 128, 255>>

Silver == <<200, 200, 200, 255>>

Red == <<220, 30, 30, 255>>

White == <<255, 255, 255, 255>>

Clear == <<200, 50, 50, 0>>

Green == <<0, 170, 0, 255>>

Azure == <<60, 130, 255, 255>>

PureBlue == <<0, 0, 255, 255>>

Palette == {Black, NearBlack, Navy, Blue, MidGray, Silver, Red, White, Clear}

Picture(kind, a, b) == [kind |-> kind, a |-> a, b |-> b]

Pictures ==
    { Picture("uniform", a, a) : a \in Palette }
    \cup { Picture("split", Blue, MidGray), Picture("split", Silver, Blue),
           Picture("split", Black, Red), Picture("split", NearBlack, Black),
           Picture("letterbox", Black, Red), Picture("letterbox", NearBlack, Blue),
           Picture("sky", Silver, Red), Picture("sky", Red, Black),
           Picture("sky", Clear, Navy) }
    \cup { Picture("uniform", Green, Green), Picture("split", Blue, Silver),
           Picture("split", Azure, Silver), Picture("split", PureBlue, MidGray),
           Picture("split", Silver, Azure) }

\* '#336699', '#AABBCC', 'red'
Hex336699 == <<"#", "3", "3", "6", "6", "9", "9">>

HexAABBCC == <<"#", "A", "A", "B", "B", "C", "C">>

NamedRed == <<"r", "e", "d">>

NoOptions == [key \in {} |-> TRUE]

FallbackChoices ==
    {NoOptions}
    \cup { [fallbackColor |-> v] :
             v \in {Undefined, EmptyString, Hex336699, HexAABBCC, NamedRed} }

Flag(key, value) == {NoOptions, [k \in {key} |-> value]}

\* every combination of the flags and of the fallback color, on the small
\* canvas
FlagOptions ==
    { f @@ u @@ l @@ p @@ h @@ i @@ c @@ [sampleSize |-> SmallSampleSize] :
        f \in FallbackChoices,
        u \in Flag("useFallbackOnly", TRUE),
        l \in Flag("sampleLowerThird", FALSE),
        p \in Flag("analyzePortraitVideo", FALSE),
        h \in Flag("handleSplitView", FALSE),
        i \in Flag("ignoreBlackBackground", FALSE),
        c \in Flag("enableContrastBoost", FALSE) }

\* the other canvas sizes and luminance bounds
SizeOptions ==
    { f @@ l @@ i @@ c @@ m @@ z :
        f \in {NoOptions, [fallbackColor |-> Hex336699]},
        l \in Flag("sampleLowerThird", FALSE),
        i \in Flag("ignoreBlackBackground", FALSE),
        c \in Flag("enableContrastBoost", FALSE),
        m \in {NoOptions, [minLuminance |-> Lum(300), maxLuminance |-> Lum(600)]},
        z \in {NoOptions, [sampleSize |-> 1], [sampleSize |-> SmallSampleSize]} }

\* explicit saturation and darkness bounds
BoundsOptions ==
    { [minSaturation |-> 50000, maxSaturation |-> 90000, maxDarkness |-> Lum(700),
       sampleSize |-> SmallSampleSize] @@ c :
        c \in Flag("enableContrastBoost", FALSE) }

OptionsSet == FlagOptions \cup SizeOptions \cup BoundsOptions

NoFault == [noContext |-> FALSE, drawFault |-> FALSE, readFault |-> FALSE]

Faults == { [NoFault EXCEPT !.noContext = TRUE],
            [NoFault EXCEPT !.drawFault = TRUE],
            [NoFault EXCEPT !.readFault = TRUE] }

Element(kind, dims, complete, readyState, url, loadable, pic) ==
    [kind |-> kind, width |-> dims[1], height |-> dims[2],
     complete |-> complete, readyState |-> readyState,
     url |-> url, loadable |-> loadable, pic |-> pic]

SomeUrl == <<"u">>

\* the pictures tried on the less common shapes
FewPictures ==
    { Picture("uniform", Black, Black), Picture("split", Blue, MidGray),
      Picture("letterbox", Black, Red) }

\* a video element and what the browser does with it
VideoInputs ==
    { <<Element("video", d, FALSE, 4, EmptyString, FALSE, pic), NoFault>> :
        d \in {<<9, 16>>, <<16, 9>>}, pic \in Pictures }
    \cup { <<Element("video", d, FALSE, 4, EmptyString, FALSE, pic), NoFault>> :
             d \in {<<3, 1>>, <<0, 0>>}, pic \in FewPictures }
    \cup { <<Element("video", d, FALSE, 4, EmptyString, FALSE,
                     Picture("uniform", Red, Red)), e>> :
             d \in {<<9, 16>>, <<16, 9>>}, e \in Faults }
    \cup { <<Element("video", <<16, 9>>, FALSE, rs, EmptyString, FALSE,
                     Picture("uniform", Red, Red)), NoFault>> : rs \in {0, 1} }

\* the image a URL names and what the browser does with it; the empty URL
\* never loads
ImageInputs ==
    { <<Element("image", d, TRUE, 0, SomeUrl, TRUE, pic), NoFault>> :
        d \in {<<4, 3>>, <<3, 1>>}, pic \in Pictures }
    \cup { <<Element("image", d, TRUE, 0, SomeUrl, TRUE, pic), NoFault>> :
             d \in {<<5, 2>>, <<9, 16>>}, pic \in FewPictures }
    \cup { <<Element("image", d, TRUE, 0, SomeUrl, TRUE,
                     Picture("uniform", Red, Red)), e>> :
             d \in {<<4, 3>>, <<3, 1>>}, e \in Faults }
    \cup { <<Element("image", <<0, 0>>, TRUE, 0, u, FALSE,
                     Picture("uniform", Red, Red)), NoFault>> :
             u \in {EmptyString, SomeUrl} }
    \cup { <<Element("image", <<0, 0>>, TRUE, 0, SomeUrl, TRUE,
                     Picture("uniform", Red, Red)), NoFault>> }

\* an element handed to extractDominantColor itself: a canvas, or an image
\* that has not finished loading
DirectInputs ==
    { <<Element("canvas", <<4, 3>>, FALSE, 0, EmptyString, FALSE, pic), NoFault>> :
        pic \in FewPictures }
    \cup { <<Element("image", <<4, 3>>, FALSE, 0, SomeUrl, TRUE,
                     Picture("uniform", Red, Red)), NoFault>>,
           <<Element("canvas", <<4, 3>>, FALSE, 0, EmptyString, FALSE,
                     Picture("uniform", Red, Red)),
             [NoFault EXCEPT !.noContext = TRUE]>> }

\* ------------------------------------------------------------------------
\* The calls.  One call of an entry point on one input: api names the entry
\* point, phase the position of the call, result the value delivered, and
\* loads, draws, regions, scanned what the call did to the browser.
\* ------------------------------------------------------------------------
VARIABLES api, element, env, options, phase, result, loads, draws, regions,
          scanned, tables

\* One application of a function of the module to arguments: fn names the
\* function, args holds its arguments and ret the value returned (a sequence
\* of zero or one value).
VARIABLES fn, args, ret

\* Several calls in one page.  calls are the calls the page makes, in order,
\* started the number of them made so far, outcomes what each has delivered
\* (a sequence of zero or one record) and images the Image objects the calls
\* have created, each with its src and what the closures assigned to its
\* onload and onerror captured.
VARIABLES calls, started, outcomes, images

\* One Video component (video.svelte inside asset.svelte).  component tells
\* whether it is mounted, videoElement whether the bound element is set,
\* timeoutId and videoLoaded are its variables, listeners whether its
\* loadeddata and error listeners are attached, playPromise the promise of
\* videoElement.play(), timer the timeout of setTimeout, playback what the
\* element does, onVideoEnd whether the parent passed the callback,
\* videoEnds the number of times it was invoked and showInfo the bindable
\* prop a click toggles.
VARIABLES component, videoElement, timeoutId, videoLoaded, listeners,
          playPromise, timer, playback, onVideoEnd, videoEnds, showInfo

callVars == <<api, element, env, options, phase, result, loads, draws, regions,
              scanned, tables>>

fnVars == <<fn, args, ret>>

pageVars == <<calls, started, outcomes, images>>

videoVars == <<component, videoElement, timeoutId, videoLoaded, listeners,
               playPromise, timer, playback, onVideoEnd, videoEnds, showInfo>>

vars == <<callVars, fnVars, pageVars, videoVars>>

\* no Video component exists
NoVideo ==
    /\ component = "none"
    /\ videoElement = FALSE
    /\ timeoutId = 0
    /\ videoLoaded = FALSE
    /\ listeners = FALSE
    /\ playPromise = "none"
    /\ timer = "none"
    /\ playback = "none"
    /\ onVideoEnd = FALSE
    /\ videoEnds = 0
    /\ showInfo = FALSE

\* no page is making calls
NoPage == calls = <<>> /\ started = 0 /\ outcomes = <<>> /\ images = <<>>

\* no function is being applied
NoFn == fn = "none" /\ args = <<>> /\ ret = <<>>

\* no entry point is being called
NoCall ==
    /\ api = "none"
    /\ element = <<>>
    /\ env = NoFault
    /\ options = NoOptions
    /\ phase = "idle"
    /\ result = <<>>
    /\ loads = 0
    /\ draws = 0
    /\ regions = <<>>
    /\ scanned = 0
    /\ tables = <<>>

input == <<api, element, env, options>>

Init ==
    /\ options \in OptionsSet
    /\ \/ /\ api = "video"
          /\ \E i \in VideoInputs : element = i[1] /\ env = i[2]
       \/ /\ api = "url"
          /\ \E i \in ImageInputs : element = i[1] /\ env = i[2]
       \/ /\ api = "direct"
          /\ \E i \in DirectInputs : element = i[1] /\ env = i[2]
    /\ phase = "idle"
    /\ result = <<>>
    /\ loads = 0
    /\ draws = 0
    /\ regions = <<>>
    /\ scanned = 0
    /\ tables = <<>>
    /\ NoFn
    /\ NoPage
    /\ NoVideo

\* the call returns or throws with outcome out
Deliver(out, returned, threw) ==
    /\ phase' = IF out.threw THEN threw ELSE returned
    /\ result' = out.color
    /\ draws' = draws + out.draws
    /\ regions' = regions \o out.regions
    /\ scanned' = scanned + out.scanned
    /\ tables' = tables \o out.tables

\* colorUtils.ts:636  extractColorFromVideo(videoElement, options)
CallExtractColorFromVideo ==
    /\ api = "video"
    /\ phase = "idle"
    /\ Deliver(extractColorFromVideo(element, options, env), "returned", "threw")
    /\ UNCHANGED <<input, loads>>
    /\ UNCHANGED <<fnVars, pageVars, videoVars>>

\* colorUtils.ts:179  extractDominantColor(element, options)
CallExtractDominantColor ==
    /\ api = "direct"
    /\ phase = "idle"
    /\ Deliver(extractDominantColor(element, options, env), "returned", "threw")
    /\ UNCHANGED <<input, loads>>
    /\ UNCHANGED <<fnVars, pageVars, videoVars>>

\* colorUtils.ts:571  extractColorFromImageUrl(imageUrl, options): the
\* promise executor, up to img.src = imageUrl
CallExtractColorFromImageUrl ==
    /\ api = "url"
    /\ phase = "idle"
    /\ IF SettlesAtOnce(element.url, options)
       THEN /\ phase' = "resolved"
            /\ result' = <<createFallbackColor(options["fallbackColor"])>>
            /\ UNCHANGED loads
       ELSE /\ phase' = "loading"
            /\ loads' = loads + 1
            /\ UNCHANGED result
    /\ UNCHANGED <<input, draws, regions, scanned, tables>>
    /\ UNCHANGED <<fnVars, pageVars, videoVars>>

\* colorUtils.ts:600  img.onload
ImgOnLoad ==
    /\ phase = "loading"
    /\ element.loadable
    /\ Deliver(onload(element, options, env), "resolved", "rejected")
    /\ UNCHANGED <<input, loads>>
    /\ UNCHANGED <<fnVars, pageVars, videoVars>>

\* img.onerror rejecting whatever the options
ImgOnErrorRejects ==
    /\ phase = "loading"
    /\ ~element.loadable
    /\ phase' = "rejected"
    /\ UNCHANGED <<input, result, loads, draws, regions, scanned, tables>>
    /\ UNCHANGED <<fnVars, pageVars, videoVars>>

\* colorUtils.ts:615  img.onerror
ImgOnError ==
    /\ phase = "loading"
    /\ ~element.loadable
    /\ IF FallbackTruthy(options)
       THEN /\ phase' = "resolved"
            /\ result' = <<createFallbackColor(options["fallbackColor"])>>
       ELSE /\ phase' = "rejected"
            /\ UNCHANGED result
    /\ UNCHANGED <<input, loads, draws, regions, scanned, tables>>
    /\ UNCHANGED <<fnVars, pageVars, videoVars>>

Next ==
    \/ CallExtractColorFromVideo
    \/ CallExtractDominantColor
    \/ CallExtractColorFromImageUrl
    \/ ImgOnLoad
    \/ ImgOnError

Spec == Init /\ [][Next]_vars

\* ------------------------------------------------------------------------
\* The functions on their own.  One function of the module is applied to
\* arguments drawn from the sets below.
\* ------------------------------------------------------------------------
\* the channel values of the background colors tried
Levels == {0, 64, 128, 192, 255}

\* '#rrggbb' strings: every gray and the colors on the levels
HexString(r, g, b) ==
    <<"#", LowerHex[(r \div 16) + 1], LowerHex[(r % 16) + 1],
           LowerHex[(g \div 16) + 1], LowerHex[(g % 16) + 1],
           LowerHex[(b \div 16) + 1], LowerHex[(b % 16) + 1]>>

Backgrounds ==
    { HexString(c, c, c) : c \in 0..255 }
    \cup { HexString(r, g, b) : r \in Levels, g \in Levels, b \in Levels }

\* the channel values tried beside one channel running over 0..255
FewChannels == {0, 15, 16, 255}

RgbTriples ==
    { <<c, a, b>> : c \in 0..255, a \in FewChannels, b \in FewChannels }
    \cup { <<a, c, b>> : c \in 0..255, a \in FewChannels, b \in FewChannels }
    \cup { <<a, b, c>> : c \in 0..255, a \in FewChannels, b \in FewChannels }

\* the longest frequency table tried
MaxEntries == 3

\* quantized colors: two below the relaxed bounds, one below the strict
\* bounds, two within them, one above them
QuantizedColors ==
    { <<0, 0, 0>>, <<0, 0, 48>>, <<216, 24, 24>>, <<192, 192, 192>>,
      <<0, 168, 0>>, <<240, 240, 240>> }

EntryCounts == {1, 12}

\* the entry of a frequency table for a quantized color counted count times
Entry(rgb, count) ==
    [count |-> count, rgb |-> rgb,
     luminance |-> getLuminance(rgb[1], rgb[2], rgb[3]),
     saturation |-> calculateSaturation(rgb[1], rgb[2], rgb[3])]

\* the frequency tables of n entries: the keys of a Map are distinct
TablesOf(n) ==
    { [j \in 1..n |-> Entry(keys[j], counts[j])] :
        keys \in { k \in [1..n -> QuantizedColors] :
                     \A i \in 1..n : \A j \in 1..n : k[i] = k[j] => i = j },
        counts \in [1..n -> EntryCounts] }

ColorMaps == UNION { TablesOf(n) : n \in 0..MaxEntries }

\* the same entries inserted in another order
Reorderings(colorMap) ==
    { [j \in 1..Len(colorMap) |-> colorMap[f[j]]] :
        f \in { g \in [1..Len(colorMap) -> 1..Len(colorMap)] :
                  \A i \in 1..Len(colorMap) : \A j \in 1..Len(colorMap) :
                      g[i] = g[j] => i = j } }

\* the luminance bounds tried: the defaults, those of the video entry point,
\* those of the relaxed pass, and minLuminance: 0, maxLuminance: 1 of a
\* caller that wants no restriction
LuminanceBounds ==
    { <<Lum(200), Lum(850)>>, <<Lum(250), Lum(800)>>, <<Lum(100), Lum(900)>>,
      <<0, Lum(1000)>> }

\* the options that disable every heuristic of the enhanced version
HeuristicsOff(sampleSize) ==
    [sampleLowerThird |-> FALSE, analyzePortraitVideo |-> FALSE,
     handleSplitView |-> FALSE, ignoreBlackBackground |-> FALSE,
     enableContrastBoost |-> FALSE, sampleSize |-> sampleSize]

InitFn ==
    /\ NoCall
    /\ NoPage
    /\ NoVideo
    /\ ret = <<>>
    /\ \/ fn = "generateTextColor" /\ args \in { <<c>> : c \in Backgrounds }
       \/ fn \in {"rgbToHex", "colorUtils.rgbToHex"} /\ args \in RgbTriples
       \/ /\ fn = "findOptimalColor"
          /\ args \in { <<m, b[1], b[2]>> : m \in ColorMaps, b \in LuminanceBounds }
       \/ /\ fn = "selectColor"
          /\ \E m \in ColorMaps : args \in { <<m, o>> : o \in Reorderings(m) }
       \/ /\ fn = "extractDominantColor"
          /\ args \in { <<i[1], i[2], z>> :
                          i \in VideoInputs \cup ImageInputs \cup DirectInputs,
                          z \in {1, SmallSampleSize} }
       \/ /\ fn = "selectionTiers"
          /\ args \in { <<m, b[1], b[2]>> : m \in ColorMaps, b \in LuminanceBounds }

\* colorUtils.ts:714  generateTextColor(backgroundColor)
ApplyGenerateTextColor ==
    /\ fn = "generateTextColor"
    /\ ret = <<>>
    /\ ret' = <<generateTextColor(args[1])>>
    /\ UNCHANGED <<callVars, fn, args, pageVars, videoVars>>

\* colorUtils.ts:678 and :378  rgbToHex(r, g, b), then hexToRgb of the string
ApplyRgbToHex ==
    /\ fn = "rgbToHex"
    /\ ret = <<>>
    /\ LET hex == rgbToHex(args[1], args[2], args[3])
       IN  ret' = <<[hex |-> hex, rgb |-> hexToRgb(hex)]>>
    /\ UNCHANGED <<callVars, fn, args, pageVars, videoVars>>

\* colorUtils.ts:22 and :8  the exported pair
ApplyColorUtilsRgbToHex ==
    /\ fn = "colorUtils.rgbToHex"
    /\ ret = <<>>
    /\ LET hex == colorUtilsRgbToHex(args[1], args[2], args[3])
       IN  ret' = <<[hex |-> hex, rgb |-> colorUtilsHexToRgb(hex)]>>
    /\ UNCHANGED <<callVars, fn, args, pageVars, videoVars>>

\* colorUtils.ts:510  findOptimalColor(colorMap, minLuminance, maxLuminance, ..)
ApplyFindOptimalColor ==
    /\ fn = "findOptimalColor"
    /\ ret = <<>>
    /\ ret' = <<findOptimalColor(args[1], args[2], args[3], TRUE)>>
    /\ UNCHANGED <<callVars, fn, args, pageVars, videoVars>>

\* colorUtils.ts:307  the three tiers under the default bounds, on a table
\* and on the same entries in another order
ApplySelectColor ==
    /\ fn = "selectColor"
    /\ ret = <<>>
    /\ ret' = <<SelectColor(args[1], Lum(200), Lum(850), TRUE),
                SelectColor(args[2], Lum(200), Lum(850), TRUE)>>
    /\ UNCHANGED <<callVars, fn, args, pageVars, videoVars>>

\* colorUtils.ts:308, :312 and :316  each of the three tiers on the table
ApplySelectionTiers ==
    /\ fn = "selectionTiers"
    /\ ret = <<>>
    /\ ret' = <<[strict |-> findOptimalColor(args[1], args[2], args[3], TRUE),
                 relaxed |-> findOptimalColor(args[1], Lum(100), Lum(900), TRUE),
                 frequent |-> MostFrequentFrom(args[1], 1, <<>>, 0)]>>
    /\ UNCHANGED <<callVars, fn, args, pageVars, videoVars>>

\* colorUtils.ts:179 and part_000:14  the enhanced extractDominantColor with
\* every heuristic off and the simple one, on the same element
ApplyExtractDominantColor ==
    /\ fn = "extractDominantColor"
    /\ ret = <<>>
    /\ \E enhanced \in {extractDominantColor(args[1], HeuristicsOff(args[3]),
                                               args[2])} :
       \E simple \in {simpleExtractDominantColor(args[1], args[3], args[2])} :
          ret' = <<[enhanced |-> enhanced.color[1], simple |-> simple]>>
    /\ UNCHANGED <<callVars, fn, args, pageVars, videoVars>>

NextFn ==
    \/ ApplyGenerateTextColor
    \/ ApplyRgbToHex
    \/ ApplyColorUtilsRgbToHex
    \/ ApplyFindOptimalColor
    \/ ApplySelectColor
    \/ ApplySelectionTiers
    \/ ApplyExtractDominantColor

SpecFn == InitFn /\ [][NextFn]_vars

TypeOK ==
    /\ phase \in {"idle", "loading", "resolved", "rejected", "returned", "threw"}
    /\ Len(result) <= 1
    /\ loads \in 0..1
    /\ draws \in 0..1

\* ------------------------------------------------------------------------
\* The Video component.  The element fires loadeddata, error and ended, the
\* promise of play() resolves or rejects, the timeout fires and the parent
\* destroys the component, in any order the browser allows.
\* ------------------------------------------------------------------------
\* the most invocations of onVideoEnd followed
MaxVideoEnds == 3

\* asset.svelte:137  the component after onMount: the element is bound and
\* the two listeners are attached
InitVideo ==
    /\ NoCall
    /\ NoFn
    /\ NoPage
    /\ component = "mounted"
    /\ videoElement = TRUE
    /\ timeoutId = 0
    /\ videoLoaded = FALSE
    /\ listeners = TRUE
    /\ playPromise = "none"
    /\ timer = "none"
    /\ playback = "loading"
    /\ onVideoEnd \in BOOLEAN
    /\ videoEnds = 0
    /\ showInfo = FALSE

\* if (onVideoEnd) onVideoEnd()
callOnVideoEnd ==
    videoEnds' = IF onVideoEnd THEN videoEnds + 1 ELSE videoEnds

\* asset.svelte:145  loadeddata: handleVideoReady up to its await
handleVideoReady ==
    /\ listeners
    /\ playback # "failed"
    /\ playback' = IF playback = "loading" THEN "ready" ELSE playback
    /\ IF videoElement /\ ~videoLoaded
       THEN /\ videoLoaded' = TRUE
            /\ playPromise' = "pending"
       ELSE UNCHANGED <<videoLoaded, playPromise>>
    /\ UNCHANGED <<component, videoElement, timeoutId, listeners, timer,
                   videoEnds>>
    /\ UNCHANGED <<onVideoEnd, showInfo, callVars, fnVars, pageVars>>

\* asset.svelte:149  the promise of play() resolves: handleVideoReady goes on
\* after its await and sets the timeout
PlayResolves ==
    /\ playPromise = "pending"
    /\ playPromise' = "resolved"
    /\ timeoutId' = 1
    /\ timer' = "scheduled"
    /\ playback' = IF component = "mounted" THEN "playing" ELSE playback
    /\ UNCHANGED <<component, videoElement, videoLoaded, listeners, videoEnds>>
    /\ UNCHANGED <<onVideoEnd, showInfo, callVars, fnVars, pageVars>>

\* asset.svelte:163  the promise of play() rejects: the catch clause
PlayRejects ==
    /\ playPromise = "pending"
    /\ videoEnds < MaxVideoEnds
    /\ playPromise' = "rejected"
    /\ callOnVideoEnd
    /\ UNCHANGED <<component, videoElement, timeoutId, videoLoaded, listeners,
                   timer, playback>>
    /\ UNCHANGED <<onVideoEnd, showInfo, callVars, fnVars, pageVars>>

\* asset.svelte:153  the callback of setTimeout runs
TimeoutFires ==
    /\ timer = "scheduled"
    /\ videoElement => videoEnds < MaxVideoEnds
    /\ timer' = "fired"
    /\ IF videoElement
       THEN /\ playback' = IF playback = "playing" THEN "paused" ELSE playback
            /\ callOnVideoEnd
       ELSE UNCHANGED <<playback, videoEnds>>
    /\ UNCHANGED <<component, videoElement, timeoutId, videoLoaded, listeners,
                   playPromise>>
    /\ UNCHANGED <<onVideoEnd, showInfo, callVars, fnVars, pageVars>>

\* asset.svelte:172  error: handleVideoError
handleVideoError ==
    /\ listeners
    /\ playback \notin {"ended", "failed"}
    /\ videoEnds < MaxVideoEnds
    /\ playback' = "failed"
    /\ callOnVideoEnd
    /\ UNCHANGED <<component, videoElement, timeoutId, videoLoaded, listeners,
                   playPromise, timer>>
    /\ UNCHANGED <<onVideoEnd, showInfo, callVars, fnVars, pageVars>>

\* asset.svelte:190 and :215  ended: handleVideoEnd, the playback having
\* reached the end of the video
handleVideoEnd ==
    /\ component = "mounted"
    /\ playback = "playing"
    /\ videoEnds < MaxVideoEnds
    /\ playback' = "ended"
    /\ callOnVideoEnd
    /\ UNCHANGED <<component, videoElement, timeoutId, videoLoaded, listeners,
                   playPromise, timer>>
    /\ UNCHANGED <<onVideoEnd, showInfo, callVars, fnVars, pageVars>>

\* asset.svelte:180  onDestroy; the framework then clears the binding of the
\* element or leaves it, and the removed element stops playing
onDestroy ==
    /\ component = "mounted"
    /\ component' = "destroyed"
    /\ timer' = IF timeoutId # 0 /\ timer = "scheduled" THEN "cleared" ELSE timer
    /\ listeners' = IF videoElement THEN FALSE ELSE listeners
    /\ videoElement' \in {videoElement, FALSE}
    /\ playback' = IF playback = "playing" THEN "paused" ELSE playback
    /\ UNCHANGED <<timeoutId, videoLoaded, playPromise, videoEnds>>
    /\ UNCHANGED <<onVideoEnd, showInfo, callVars, fnVars, pageVars>>

\* asset.svelte:196  a click on the video of the mounted component
handleVideoClick ==
    /\ component = "mounted"
    /\ showInfo' = ~showInfo
    /\ UNCHANGED <<component, videoElement, timeoutId, videoLoaded, listeners,
                   playPromise, timer, playback, onVideoEnd, videoEnds>>
    /\ UNCHANGED <<callVars, fnVars, pageVars>>

NextVideo ==
    \/ handleVideoReady
    \/ PlayResolves
    \/ PlayRejects
    \/ TimeoutFires
    \/ handleVideoError
    \/ handleVideoEnd
    \/ onDestroy
    \/ handleVideoClick

SpecVideo == InitVideo /\ [][NextVideo]_vars

\* ------------------------------------------------------------------------
\* Calls in flight.  The page makes its calls in order; an image load
\* completes or fails at any later time, in any order; extractColorFromVideo
\* and each handler run to completion.
\* ------------------------------------------------------------------------
\* the most calls a page makes
MaxCalls == 2

UrlA == <<"a">>

UrlB == <<"b">>

UrlBroken == <<"c">>

\* what the URL names: whether it loads, and the size and pixels of the image
Resource(url) ==
    IF url = UrlA
    THEN [loadable |-> TRUE, dims |-> <<4, 3>>, pic |-> Picture("uniform", Clear, Clear)]
    ELSE IF url = UrlB
    THEN [loadable |-> TRUE, dims |-> <<3, 1>>, pic |-> Picture("split", Azure, Silver)]
    ELSE [loadable |-> FALSE, dims |-> <<0, 0>>, pic |-> Picture("uniform", Clear, Clear)]

\* the Image object once the resource at src has loaded
LoadedImage(src) ==
    Element("image", Resource(src).dims, TRUE, 0, src, TRUE, Resource(src).pic)

PageCall(kind, url, video, opts) ==
    [api |-> kind, url |-> url, element |-> video, env |-> NoFault,
     options |-> opts]

PageCalls ==
    { PageCall("url", u, <<>>, o) :
        u \in {UrlA, UrlB},
        o \in { [sampleSize |-> SmallSampleSize],
                [sampleSize |-> SmallSampleSize, sampleLowerThird |-> FALSE,
                 fallbackColor |-> Hex336699] } }
    \cup { PageCall("url", UrlBroken, <<>>, o) :
             o \in { NoOptions, [fallbackColor |-> Hex336699] } }
    \cup { PageCall("url", EmptyString, <<>>, [fallbackColor |-> Hex336699]) }
    \cup { PageCall("simpleUrl", u, <<>>, NoOptions) : u \in {UrlB, UrlBroken} }
    \cup { PageCall("video",
                    EmptyString,
                    Element("video", d, FALSE, 4, EmptyString, FALSE,
                            Picture("letterbox", Black, Red)),
                    [sampleSize |-> SmallSampleSize]) :
             d \in {<<9, 16>>, <<16, 9>>} }

InitPage ==
    /\ NoCall
    /\ NoFn
    /\ NoVideo
    /\ calls \in UNION { [1..n -> PageCalls] : n \in 1..MaxCalls }
    /\ started = 0
    /\ outcomes = [i \in 1..Len(calls) |-> <<>>]
    /\ images = <<>>

\* resolve or reject of promise p is called: outcomes[p] lists the calls in
\* order, and the promise is settled by the first
Settle(p, state, color) ==
    outcomes' = [outcomes EXCEPT ![p] = Append(@, [state |-> state,
                                                   color |-> color])]

\* colorUtils.ts:636  the page calls extractColorFromVideo
PageCallsExtractColorFromVideo ==
    /\ started < Len(calls)
    /\ calls[started + 1].api = "video"
    /\ started' = started + 1
    /\ \E c \in {calls[started + 1]} :
       \E out \in {extractColorFromVideo(c.element, c.options, c.env)} :
          outcomes' = [outcomes EXCEPT ![started + 1] =
                          <<[state |-> IF out.threw THEN "threw" ELSE "returned",
                             color |-> out.color]>>]
    /\ UNCHANGED <<calls, images, callVars, fnVars, videoVars>>

\* colorUtils.ts:571  the page calls extractColorFromImageUrl: the executor
\* settles at once or creates an Image of its own and sets its src
PageCallsExtractColorFromImageUrl ==
    /\ started < Len(calls)
    /\ calls[started + 1].api = "url"
    /\ started' = started + 1
    /\ \E c \in {calls[started + 1]} :
          IF SettlesAtOnce(c.url, c.options)
          THEN /\ Settle(started + 1, "resolved",
                         <<createFallbackColor(c.options["fallbackColor"])>>)
               /\ UNCHANGED images
          ELSE /\ images' = Append(images,
                                   [src |-> c.url, promise |-> started + 1,
                                    options |-> c.options, env |-> c.env,
                                    fired |-> FALSE, simple |-> FALSE])
               /\ UNCHANGED outcomes
    /\ UNCHANGED <<calls, callVars, fnVars, videoVars>>

\* part_000:129  the page calls the simple extractColorFromImageUrl: the
\* executor creates an Image and sets its src
PageCallsSimpleExtractColorFromImageUrl ==
    /\ started < Len(calls)
    /\ calls[started + 1].api = "simpleUrl"
    /\ started' = started + 1
    /\ images' = Append(images,
                        [src |-> calls[started + 1].url, promise |-> started + 1,
                         options |-> NoOptions, env |-> calls[started + 1].env,
                         fired |-> FALSE, simple |-> TRUE])
    /\ UNCHANGED <<calls, outcomes, callVars, fnVars, videoVars>>

\* part_000:133  img.onload of the simple version, sampleSize left at 50
SimpleImageLoads(k) ==
    /\ ~images[k].fired
    /\ images[k].simple
    /\ Resource(images[k].src).loadable
    /\ \E img \in {LoadedImage(images[k].src)} :
       \E color \in {simpleExtractDominantColor(img, 50, images[k].env)} :
          Settle(images[k].promise, "resolved", <<color>>)
    /\ images' = [images EXCEPT ![k].fired = TRUE]
    /\ UNCHANGED <<calls, started, callVars, fnVars, videoVars>>

\* part_000:142  img.onerror of the simple version
SimpleImageFails(k) ==
    /\ ~images[k].fired
    /\ images[k].simple
    /\ ~Resource(images[k].src).loadable
    /\ Settle(images[k].promise, "rejected", <<>>)
    /\ images' = [images EXCEPT ![k].fired = TRUE]
    /\ UNCHANGED <<calls, started, callVars, fnVars, videoVars>>

\* img.onerror settling only when a fallback color is configured
ImageFailsUnhandled(k) ==
    /\ ~images[k].fired
    /\ ~images[k].simple
    /\ ~Resource(images[k].src).loadable
    /\ IF FallbackTruthy(images[k].options)
       THEN Settle(images[k].promise, "resolved",
                   <<createFallbackColor(images[k].options["fallbackColor"])>>)
       ELSE UNCHANGED outcomes
    /\ images' = [images EXCEPT ![k].fired = TRUE]
    /\ UNCHANGED <<calls, started, callVars, fnVars, videoVars>>

\* img.onload reading the options of the latest call instead of its own
ImageLoadsLatestOptions(k) ==
    /\ ~images[k].fired
    /\ ~images[k].simple
    /\ Resource(images[k].src).loadable
    /\ \E img \in {LoadedImage(images[k].src)} :
       \E out \in {onload(img, calls[started].options, images[k].env)} :
          Settle(images[k].promise,
                 IF out.threw THEN "rejected" ELSE "resolved", out.color)
    /\ images' = [images EXCEPT ![k].fired = TRUE]
    /\ UNCHANGED <<calls, started, callVars, fnVars, videoVars>>

\* colorUtils.ts:600  the load of image k completes: its onload runs with
\* the options and the resolve its closure captured
ImageLoads(k) ==
    /\ ~images[k].fired
    /\ ~images[k].simple
    /\ Resource(images[k].src).loadable
    /\ \E img \in {LoadedImage(images[k].src)} :
       \E out \in {onload(img, images[k].options, images[k].env)} :
          Settle(images[k].promise,
                 IF out.threw THEN "rejected" ELSE "resolved", out.color)
    /\ images' = [images EXCEPT ![k].fired = TRUE]
    /\ UNCHANGED <<calls, started, callVars, fnVars, videoVars>>

\* colorUtils.ts:615  the load of image k fails: its onerror runs
ImageFails(k) ==
    /\ ~images[k].fired
    /\ ~images[k].simple
    /\ ~Resource(images[k].src).loadable
    /\ IF FallbackTruthy(images[k].options)
       THEN Settle(images[k].promise, "resolved",
                   <<createFallbackColor(images[k].options["fallbackColor"])>>)
       ELSE Settle(images[k].promise, "rejected", <<>>)
    /\ images' = [images EXCEPT ![k].fired = TRUE]
    /\ UNCHANGED <<calls, started, callVars, fnVars, videoVars>>

NextPage ==
    \/ PageCallsExtractColorFromVideo
    \/ PageCallsExtractColorFromImageUrl
    \/ PageCallsSimpleExtractColorFromImageUrl
    \/ \E k \in 1..Len(images) : ImageLoads(k)
    \/ \E k \in 1..Len(images) : ImageFails(k)
    \/ \E k \in 1..Len(images) : SimpleImageLoads(k)
    \/ \E k \in 1..Len(images) : SimpleImageFails(k)

SpecPage == InitPage /\ [][NextPage]_vars

\* the load or error event of image k is pending: the image exists and
\* neither handler has run.  Exactly one of ImageLoads(k), ImageFails(k),
\* SimpleImageLoads(k) and SimpleImageFails(k) is enabled in such a state and
\* none is in any other.
EventPending(k) == k <= Len(images) /\ ~images[k].fired

\* the browser delivers the load or the error event of every image whose src
\* was set: weak fairness of the handlers of image k, written with their
\* enabling condition
SpecPageFair ==
    SpecPage /\ \A k \in 1..MaxCalls : []<>(~EventPending(k))

\* ------------------------------------------------------------------------
\* Vocabulary of the properties
\* ------------------------------------------------------------------------
\* the call has delivered a color
Done == phase \in {"returned", "resolved"}

\* the options hold no fallbackColor key
NoFallbackConfigured == "fallbackColor" \notin DOMAIN options

\* configured fallback -> hardcoded default: the color of the fallback chain
FallbackChain(default) == createFallbackColor(FallbackOrDefault(options, default))

\* the call read the canvas
Analysed == regions # <<>>

\* every frequency table the call built is empty
TablesEmpty == \A t \in 1..Len(tables) : tables[t] = <<>>

\* the call ended on a failure path: nothing was read (source not ready, no
\* 2D context, an exception) or no sample survived the filters
FailurePath == Done /\ (~Analysed \/ TablesEmpty)

NearBlackRgb(rgb) == rgb[1] < 30 /\ rgb[2] < 30 /\ rgb[3] < 30

\* every pixel of the picture drawn is below 30 on all three channels
AllNearBlack == NearBlackRgb(element.pic.a) /\ NearBlackRgb(element.pic.b)

SampleSize == Opt(options, "sampleSize", 50)

Enabled(key) == Opt(options, key, TRUE)

\* the centred rectangle of floor(0.6 s) by floor(0.8 s)
CenterRegion ==
    LET cw == (SampleSize * 6) \div 10
        ch == (SampleSize * 8) \div 10
    IN  <<(SampleSize - cw) \div 2, (SampleSize - ch) \div 2, cw, ch>>

\* the lower thirds of the left and of the right half
HalfRegions ==
    LET hw == SampleSize \div 2
        top == (SampleSize * 67) \div 100
    IN  << <<0, top, hw, SampleSize - top>>, <<hw, top, hw, SampleSize - top>> >>

\* ------------------------------------------------------------------------
\* Properties
\* ------------------------------------------------------------------------
\* C1: the promise of extractColorFromImageUrl is rejected exactly when the
\* image fails to load and no fallbackColor is configured; in every other
\* case it is resolved with one ExtractedColor.
C1_RejectsOnlyWithoutFallback ==
    (api = "url" /\ phase \in {"resolved", "rejected"}) =>
        /\ (phase = "rejected") <=> (~element.loadable /\ ~FallbackTruthy(options))
        /\ (phase = "resolved") => (Len(result) = 1 /\ Len(result[1].rgb) = 3)

C1_Witness ==
    /\ api = "url"
    /\ phase = "rejected"
    /\ ~element.loadable
    /\ loads = 1

\* C2: extractColorFromVideo never throws, and when the analysis meets a
\* fault (no 2D context, drawImage or getImageData raising, a frame without
\* pixels) the call returns the color of the fallback chain.
C2_VideoNeverThrows ==
    api = "video" =>
        /\ phase # "threw"
        /\ (/\ phase = "returned"
            /\ element.readyState >= 2
            /\ \/ env.noContext
               \/ env.drawFault
               \/ env.readFault
               \/ element.width = 0
               \/ element.height = 0)
           => result = <<FallbackChain(Slate)>>

C2_Witness ==
    /\ api = "video"
    /\ phase = "returned"
    /\ env.readFault
    /\ draws = 1
    /\ ~(UseFallbackOnly(options) /\ FallbackTruthy(options))

\* C3 (as stated): on every failure path of both entry points, when no
\* fallbackColor is configured, the color returned is the neutral gray
\* rgb(107,114,128), '#6b7280'.
C3_GrayOnEveryFailure ==
    (api \in {"video", "url"} /\ NoFallbackConfigured /\ FailurePath) =>
        (result[1].rgb = <<107, 114, 128>> /\ result[1].hex = Gray)

\* C3 (amended): when the options hold no fallbackColor, a failure path of
\* extractColorFromImageUrl resolves with the gray rgb(107,114,128),
\* '#6b7280', and a failure path of extractColorFromVideo returns
\* rgb(74,85,104), '#4a5568'.
C3_DefaultPerEntryPoint ==
    (NoFallbackConfigured /\ FailurePath) =>
        /\ api = "url" =>
              (result[1].rgb = <<107, 114, 128>> /\ result[1].hex = Gray)
        /\ api = "video" =>
              (result[1].rgb = <<74, 85, 104>> /\ result[1].hex = Slate)

C3_Witness ==
    /\ api = "url"
    /\ NoFallbackConfigured
    /\ phase = "resolved"
    /\ Analysed
    /\ TablesEmpty
    /\ result[1].hex = Gray

C5_NotReadyFallsBack ==
    api = "video" =>
        /\ phase \in {"idle", "returned"}
        /\ (phase = "returned" /\ element.readyState < 2) =>
              /\ draws = 0 /\ scanned = 0 /\ regions = <<>>
              /\ result = <<createFallbackColor(FallbackOr(options, Slate))>>

C5_Witness ==
    /\ api = "video"
    /\ element.readyState < 2
    /\ phase = "returned"
    /\ ~UseFallbackOnly(options)

\* C6: every ExtractedColor delivered has a hex of exactly 7 characters,
\* '#' followed by 6 lowercase hexadecimal digits.
C6_HexWellFormed ==
    Done =>
        /\ Len(result[1].hex) = 7
        /\ result[1].hex[1] = "#"
        /\ \A i \in 2..7 : \E d \in 1..16 : result[1].hex[i] = LowerHex[d]

\* C7: in every ExtractedColor delivered the luminance field is the relative
\* luminance of the result's own rgb.
C7_LuminanceOfOwnRgb ==
    Done =>
        result[1].luminance
            = getLuminance(result[1].rgb[1], result[1].rgb[2], result[1].rgb[3])

\* C8: when every pixel of the buffer is near-black and ignoreBlackBackground
\* is set, an analysis (of one region or of the two halves) delivers the
\* configured fallback color and never a near-black color.
C8_BlackBufferGivesFallback ==
    (Done /\ Analysed /\ AllNearBlack /\ Enabled("ignoreBlackBackground")) =>
        /\ FallbackTruthy(options) =>
              result = <<createFallbackColor(options["fallbackColor"])>>
        /\ ~NearBlackRgb(result[1].rgb)

C8_Witness ==
    /\ api = "url"
    /\ phase = "resolved"
    /\ Len(regions) = 2
    /\ AllNearBlack
    /\ Enabled("ignoreBlackBackground")
    /\ FallbackTruthy(options)

\* C9: when analyzePortraitVideo is enabled and the source is a video of
\* aspect ratio below 1, the region analysed is the centred rectangle of
\* floor(0.6*sampleSize) by floor(0.8*sampleSize), whatever the other flags.
C9_PortraitRegion ==
    (/\ element.kind = "video"
     /\ Done
     /\ Analysed
     /\ Enabled("analyzePortraitVideo")
     /\ element.width < element.height)
    => regions = <<CenterRegion>>

\* C10 (as stated): when handleSplitView is enabled, the portrait rule does
\* not apply and the aspect ratio exceeds 2.5, the lower thirds of the left
\* and right halves are the regions analysed, for images and videos alike.
C10_SplitForEverySource ==
    (/\ element.kind \in {"image", "video"}
     /\ Done
     /\ Analysed
     /\ Enabled("handleSplitView")
     /\ ~(element.kind = "video" /\ Enabled("analyzePortraitVideo")
          /\ element.width < element.height)
     /\ 2 * element.width > 5 * element.height)
    => regions = HalfRegions

\* C10 (amended): when handleSplitView is enabled and an image's aspect
\* ratio exceeds 2.5, the lower thirds of the left and right halves are the
\* regions analysed; a video source is never split, one region is analysed.
C10_SplitForImages ==
    /\ (/\ element.kind = "image"
        /\ Done
        /\ Analysed
        /\ Enabled("handleSplitView")
        /\ 2 * element.width > 5 * element.height)
       => (regions = HalfRegions /\ Len(tables) = 2)
    /\ (element.kind = "video" /\ Done) => Len(regions) <= 1

C10_Witness ==
    /\ element.kind = "image"
    /\ phase = "resolved"
    /\ 2 * element.width > 5 * element.height
    /\ regions = HalfRegions
    /\ tables[1] # <<>>
    /\ tables[2] # <<>>

\* the options extractDominantColor receives from the entry point called
EffectiveOptions ==
    IF api = "video" THEN VideoExtractionOptions(options)
    ELSE IF api = "url" THEN ImageExtractionOptions(options)
    ELSE options

\* the color is an entry of a frequency table of the call, as it is or
\* brightened
FromTable(color) ==
    \E t \in 1..Len(tables) : \E j \in 1..Len(tables[t]) :
        \/ color.rgb = tables[t][j].rgb
        \/ color.rgb = boostColorBrightness(tables[t][j].rgb[1],
                                            tables[t][j].rgb[2],
                                            tables[t][j].rgb[3], 4)

\* C12: on every analysis path, split view included, when at least one
\* sample survived the filters of some analysed region the color delivered
\* is a candidate of the frequency tables and not the fallback color.
C12_FallbackOnlyWhenEmpty ==
    (Done /\ Analysed /\ ~TablesEmpty) => FromTable(result[1])

\* the strict pass on table t, with the bounds of the options
StrictBest(t) ==
    findOptimalColor(tables[t],
                     Opt(EffectiveOptions, "minLuminance", Lum(200)),
                     Opt(EffectiveOptions, "maxLuminance", Lum(850)), TRUE)

\* the candidate the call chose: the pick of the three tiers on one region,
\* the half of the higher regionScore (or the only half with a candidate)
\* on two
Chosen ==
    IF Len(tables) = 1
    THEN LET strict == StrictBest(1)
             relaxed == IF strict # <<>> THEN strict
                        ELSE findOptimalColor(tables[1], Lum(100), Lum(900), TRUE)
         IN  IF relaxed # <<>> THEN relaxed
             ELSE MostFrequentFrom(tables[1], 1, <<>>, 0)
    ELSE IF Len(tables) = 2
    THEN IF StrictBest(1) # <<>> /\ StrictBest(2) # <<>>
         THEN IF regionScore(StrictBest(1)[1]) > regionScore(StrictBest(2)[1])
              THEN StrictBest(1) ELSE StrictBest(2)
         ELSE IF StrictBest(1) # <<>> THEN StrictBest(1) ELSE StrictBest(2)
    ELSE <<>>

\* twice the HSL lightness of a color, in 255ths (0.4 is 204)
Lightness(rgb) == Max3(rgb[1], rgb[2], rgb[3]) + Min3(rgb[1], rgb[2], rgb[3])

\* C13: whenever enableContrastBoost is enabled and the chosen candidate's
\* luminance is below 0.3, the color delivered is that candidate with its
\* HSL lightness raised to at least 0.4 (to within the rounding of the
\* channels), never lowered, each channel within 0..255, on the
\* single-region path and on the split-view path alike.
C13_DarkCandidateBoosted ==
    (/\ Done
     /\ Analysed
     /\ Chosen # <<>>
     /\ Opt(EffectiveOptions, "enableContrastBoost", TRUE)
     /\ Chosen[1].luminance < Lum(300))
    => LET c == Chosen[1].rgb
       IN  /\ result[1].rgb = boostColorBrightness(c[1], c[2], c[3], 4)
           /\ \A i \in 1..3 : result[1].rgb[i] \in 0..255
           /\ Lightness(result[1].rgb) >= 203
           /\ Lightness(result[1].rgb) >= Lightness(c)

\* a vibrant, highly saturated blue: blue is the strongest channel, at 200
\* or more, and the saturation is at least 0.8
VibrantBlue(px) ==
    /\ px[3] >= 200
    /\ px[3] > px[1] /\ px[3] > px[2]
    /\ calculateSaturation(px[1], px[2], px[3]) >= 80000
    /\ px[4] = 255

\* a desaturated gray: the three channels are equal
DesaturatedGray(px) == px[1] = px[2] /\ px[2] = px[3] /\ px[4] = 255

\* the key a pixel is counted under
QuantizedRgb(px) == <<(px[1] \div 24) * 24, (px[2] \div 24) * 24, (px[3] \div 24) * 24>>

\* C14: for a 3:1 image whose left half is a vibrant blue and whose right
\* half is a desaturated gray, extractColorFromImageUrl under default
\* options resolves with the candidate of the blue half.
C14_BlueHalfWins ==
    (/\ api = "url"
     /\ phase = "resolved"
     /\ options = NoOptions
     /\ element.width = 3 * element.height
     /\ element.pic.kind = "split"
     /\ VibrantBlue(element.pic.a)
     /\ DesaturatedGray(element.pic.b))
    => result[1].rgb = QuantizedRgb(element.pic.a)

\* C17: the strict pass selects no color whose saturation lies outside
\* [minSaturation, maxSaturation], and a color delivered from the table is
\* not darker than maxDarkness allows (1 - luminance <= maxDarkness).
C17_BoundsHonoured ==
    (Done /\ Analysed) =>
        /\ \A t \in 1..Len(tables) :
              StrictBest(t) # <<>> =>
                  /\ StrictBest(t)[1].saturation
                        >= Opt(EffectiveOptions, "minSaturation", 15000)
                  /\ StrictBest(t)[1].saturation
                        <= Opt(EffectiveOptions, "maxSaturation", SatUnit)
        /\ Chosen # <<>> =>
              LumUnit - result[1].luminance
                  <= Opt(EffectiveOptions, "maxDarkness", Lum(700))

\* the ImageData of region t of the call
RegionData(t) ==
    getImageData([pic |-> Drawn(element), size |-> SampleSize, readFault |-> FALSE],
                 regions[t][1], regions[t][2], regions[t][3], regions[t][4])

\* the examined samples of region t that survive the filters: pixel indices
\* 0, 4, 8, ... with alpha >= 128 and, when ignoreBlackBackground is set,
\* not below 30 on all three channels
Survivors(t) ==
    { i \in 0..(regions[t][3] * regions[t][4] - 1) :
        /\ i % 4 = 0
        /\ DataPixel(RegionData(t), i)[4] >= 128
        /\ ~(/\ Opt(EffectiveOptions, "ignoreBlackBackground", TRUE)
              /\ NearBlackRgb(DataPixel(RegionData(t), i))) }

\* C18: the frequency table of every region holds exactly the surviving
\* examined samples, each counted once under its quantized key: every entry
\* counts the survivors of its key, the keys are distinct and every survivor
\* has an entry.
C18_TableCountsSurvivors ==
    \A t \in 1..Len(tables) :
        /\ \A j \in 1..Len(tables[t]) :
              /\ tables[t][j].count =
                    Cardinality({ i \in Survivors(t) :
                        QuantizedRgb(DataPixel(RegionData(t), i)) = tables[t][j].rgb })
              /\ tables[t][j].count >= 1
              /\ \A k \in 1..Len(tables[t]) :
                    tables[t][k].rgb = tables[t][j].rgb => k = j
        /\ \A i \in Survivors(t) :
              MapHas(tables[t], QuantizedRgb(DataPixel(RegionData(t), i)))

C18_Witness ==
    /\ Len(tables) = 1
    /\ Len(tables[1]) = 1
    /\ tables[1][1].count >= 2
    /\ Cardinality(Survivors(1)) < (regions[1][3] * regions[1][4] + 3) \div 4
    /\ Cardinality(Survivors(1)) = tables[1][1].count

\* the luminance, in units of 1e-5, of a color '#rrggbb'
HexLuminance(hex) ==
    LET rgb == hexToRgb(hex)
    IN  getLuminance(rgb[1], rgb[2], rgb[3]) \div (LumUnit \div SatUnit)

\* the two colors have a contrast ratio of at least 7:1
MeetsAAA(hexA, hexB) ==
    LET la == HexLuminance(hexA)
        lb == HexLuminance(hexB)
    IN  Max(la, lb) + 5000 >= 7 * (Min(la, lb) + 5000)

\* function f has been applied
Applied(f) == fn = f /\ ret # <<>>

C15_RoundTrip ==
    (Applied("rgbToHex") \/ Applied("colorUtils.rgbToHex")) =>
        /\ ret[1].rgb = args
        /\ Len(ret[1].hex) = 7

C15_Witness ==
    /\ Applied("rgbToHex")
    /\ args[1] < 16
    /\ args[2] >= 16
    /\ ret[1].rgb = args

\* the score the claim gives, in units of 1e-7
C19_Score(c) ==
    LET l == c.luminance \div 10000
        bonus == IF c.luminance > Lum(250) THEN 12 ELSE 10
    IN  (4 * Min(c.count * 10000, 100000)
           + 3 * Min((3 * c.saturation) \div 2, 100000)
           + 3 * (100000 - Abs(l - 50000))) * bonus

\* C19: findOptimalColor returns, among the entries with minLuminance <=
\* luminance <= maxLuminance, one of maximal score, and null when there is
\* none.
C19_MaximalInRange ==
    Applied("findOptimalColor") =>
        LET colorMap == args[1]
            inRange == { j \in 1..Len(colorMap) :
                           /\ colorMap[j].luminance >= args[2]
                           /\ colorMap[j].luminance <= args[3] }
        IN  IF inRange = {}
            THEN ret[1] = <<>>
            ELSE /\ \E j \in inRange : ret[1] = <<colorMap[j]>>
                 /\ \A j \in inRange : C19_Score(ret[1][1]) >= C19_Score(colorMap[j])

C19_Witness ==
    /\ Applied("findOptimalColor")
    /\ Len(args[1]) = 3
    /\ ret[1] = <<args[1][3]>>
    /\ args[1][1].luminance < args[2]
    /\ args[1][2].luminance >= args[2]
    /\ args[1][2].luminance <= args[3]

\* C20: the selection does not depend on the insertion order of the table:
\* the same entries in two orders give the same selection, in the scoring
\* passes and in the highest-count fallback, ties included.
C20_OrderIndependent ==
    Applied("selectColor") => ret[1] = ret[2]

\* C21 (as stated): every tier relaxes the previous one for every
\* minLuminance/maxLuminance setting: a table in which the strict pass finds
\* a candidate is one in which the relaxed pass with bounds [0.1, 0.9] finds
\* one, and the highest-count fallback finds one in every non-empty table.
C21_EachTierRelaxes ==
    Applied("selectionTiers") =>
        /\ ret[1].strict # <<>> => ret[1].relaxed # <<>>
        /\ args[1] # <<>> => ret[1].frequent # <<>>

\* C21 (amended): for every setting with 0.1 <= minLuminance and
\* maxLuminance <= 0.9 the relaxed pass finds a candidate wherever the
\* strict pass finds one; for every setting the highest-count fallback finds
\* one in every non-empty table; under a setting wider than [0.1, 0.9] the
\* strict pass can find a candidate that the relaxed pass refuses.
C21_RelaxesWithinFixedBounds ==
    Applied("selectionTiers") =>
        /\ (args[2] >= Lum(100) /\ args[3] <= Lum(900)) =>
              (ret[1].strict # <<>> => ret[1].relaxed # <<>>)
        /\ args[1] # <<>> => ret[1].frequent # <<>>
        /\ ret[1].relaxed # <<>> =>
              /\ ret[1].relaxed[1].luminance >= Lum(100)
              /\ ret[1].relaxed[1].luminance <= Lum(900)

C21_Witness ==
    /\ Applied("selectionTiers")
    /\ Len(args[1]) = 1
    /\ args[2] = Lum(250)
    /\ ret[1].strict = <<>>
    /\ ret[1].relaxed # <<>>
    /\ ret[1].frequent = ret[1].relaxed

\* C24 (as stated): with every heuristic flag disabled the enhanced
\* extractDominantColor returns the same color as the simple
\* extractDominantColor for every pixel buffer.
C24_SameAsSimple ==
    Applied("extractDominantColor") => ret[1].enhanced = ret[1].simple

\* the extraction of the applied call fails before any pixel is read: no 2D
\* context, an image that has not loaded, or an exception of the canvas
C24_Fails ==
    \/ args[2].noContext
    \/ args[2].drawFault
    \/ args[2].readFault
    \/ args[1].kind = "image" /\ (~args[1].complete \/ args[1].height = 0)

\* the channels of a pixel floored to buckets of the given width
C24_Bucket(px, width) ==
    <<(px[1] \div width) * width, (px[2] \div width) * width,
      (px[3] \div width) * width>>

\* C24 (amended): with every heuristic flag disabled the two versions agree
\* on rgb and hex only where their buckets do: for a buffer of one opaque
\* color the enhanced version returns the color floored to multiples of 24
\* and the simple version the color floored to multiples of 32; when the
\* extraction fails or the buffer holds no opaque sample both return
\* '#4a5568', (74, 85, 104).
C24_AgreesUpToBuckets ==
    Applied("extractDominantColor") =>
        LET pic == Drawn(args[1])
        IN  /\ (C24_Fails \/ (pic.kind = "uniform" /\ pic.a[4] < 128)) =>
                  /\ ret[1].enhanced.rgb = <<74, 85, 104>>
                  /\ ret[1].simple.rgb = <<74, 85, 104>>
                  /\ ret[1].enhanced.hex = Slate
                  /\ ret[1].simple.hex = Slate
            /\ (~C24_Fails /\ pic.kind = "uniform" /\ pic.a[4] >= 128) =>
                  /\ ret[1].enhanced.rgb = C24_Bucket(pic.a, 24)
                  /\ ret[1].simple.rgb = C24_Bucket(pic.a, 32)

C24_Witness ==
    /\ Applied("extractDominantColor")
    /\ ~C24_Fails
    /\ args[1].pic.kind = "uniform"
    /\ args[1].pic.a[4] = 255
    /\ args[3] = SmallSampleSize
    /\ ret[1].enhanced.rgb # ret[1].simple.rgb

\* the call analysed the two halves of the split view
SplitViewAnalysed == Done /\ Analysed /\ Len(tables) = 2

\* 0.6 * saturation + 0.4 * (1 - |luminance - 0.5|) in units of 1e-6
C22_RegionScore(c) ==
    6 * c.saturation + 4 * (100000 - Abs(c.luminance \div 10000 - 50000))

\* C22: in split-view analysis, when both halves yield a candidate the
\* result is the candidate of the half with the higher regionScore, and when
\* exactly one half yields a candidate that candidate is the result.
C22_HigherRegionScoreWins ==
    SplitViewAnalysed =>
        LET left == StrictBest(1)
            right == StrictBest(2)
        IN  /\ (left # <<>> /\ right # <<>>) =>
                  /\ C22_RegionScore(left[1]) > C22_RegionScore(right[1])
                        => result[1].rgb = left[1].rgb
                  /\ C22_RegionScore(right[1]) > C22_RegionScore(left[1])
                        => result[1].rgb = right[1].rgb
                  /\ result[1].rgb \in {left[1].rgb, right[1].rgb}
            /\ (left # <<>> /\ right = <<>>) => result[1].rgb = left[1].rgb
            /\ (left = <<>> /\ right # <<>>) => result[1].rgb = right[1].rgb

C22_Witness ==
    /\ SplitViewAnalysed
    /\ StrictBest(1) # <<>>
    /\ StrictBest(2) # <<>>
    /\ C22_RegionScore(StrictBest(1)[1]) > C22_RegionScore(StrictBest(2)[1])
    /\ result[1].rgb = StrictBest(1)[1].rgb
    /\ result[1].rgb # StrictBest(2)[1].rgb

\* no call has called resolve or reject more than once, and a call whose
\* image has not fired its event has called neither
C23_AtMostOnceNotEarly ==
    /\ \A i \in 1..Len(calls) : Len(outcomes[i]) <= 1
    /\ \A k \in 1..Len(images) :
          ~images[k].fired => outcomes[images[k].promise] = <<>>

\* C23: each extractColorFromImageUrl call settles exactly once: provided
\* the load of its image completes or fails, the promise of a call that was
\* made is eventually resolved or rejected; resolve and reject are never
\* both called nor called twice, and nothing is delivered before the load or
\* error event.
C23_SettlesExactlyOnce ==
    /\ []C23_AtMostOnceNotEarly
    /\ \A i \in 1..MaxCalls :
          (i <= started /\ calls[i].api \in {"url", "simpleUrl"})
             ~> (/\ i <= Len(calls)
                 /\ Len(outcomes[i]) = 1
                 /\ outcomes[i][1].state \in {"resolved", "rejected"})

C23_Witness ==
    /\ Len(images) = 2
    /\ images[1].fired
    /\ images[2].fired
    /\ images[2].simple
    /\ ~images[1].simple
    /\ outcomes[images[1].promise][1].state = "rejected"
    /\ outcomes[images[2].promise][1].state = "resolved"

\* C25: for one mounted Video component onVideoEnd is invoked at most once,
\* whatever the order and number of the loadeddata, ended, error,
\* play-rejection and timeout events.
C25_EndsAtMostOnce ==
    component = "mounted" => videoEnds <= 1

\* C26: after the Video component is destroyed no playback timeout remains
\* scheduled, including when the destruction happens while the play() call
\* of handleVideoReady is still pending.
C26_NoTimeoutAfterDestroy ==
    component = "destroyed" => timer # "scheduled"

\* the entries of the table of the applied findOptimalColor whose luminance
\* lies within [minLuminance, maxLuminance]
C27_InRange ==
    { j \in 1..Len(args[1]) :
        args[1][j].luminance >= args[2] /\ args[1][j].luminance <= args[3] }

\* C27: findOptimalColor returns null if and only if no candidate of the
\* table lies within [minLuminance, maxLuminance]; every in-range candidate
\* has a score strictly greater than the initial best score 0.
C27_NullOnlyWhenNoneInRange ==
    Applied("findOptimalColor") =>
        /\ ret[1] = <<>> <=> C27_InRange = {}
        /\ \A j \in C27_InRange : C19_Score(args[1][j]) > 0

C27_Witness ==
    /\ Applied("findOptimalColor")
    /\ Cardinality(C27_InRange) = 1
    /\ Len(args[1]) = 2
    /\ ret[1] # <<>>
    /\ ret[1][1].count = 1
    /\ C19_Score(ret[1][1]) < 5000000

\* the WCAG contrast ratio of a background of luminance l (in units of 1e-5)
\* against white and against black, in thousandths
C28_AgainstWhite(l) == (105000 * 1000) \div (l + 5000)

C28_AgainstBlack(l) == ((l + 5000) * 1000) \div 5000

\* C28: generateTextColor always returns '#ffffff' or '#000000', and for
\* every valid background the one returned has a contrast ratio against the
\* background that is at least that of the other, hence never below 4.5:1.
C28_HigherRatioAtLeastAA ==
    Applied("generateTextColor") =>
        LET l == HexLuminance(args[1])
        IN  /\ ret[1] \in {HexWhite, HexBlack}
            /\ ret[1] = HexWhite =>
                  /\ C28_AgainstWhite(l) >= C28_AgainstBlack(l)
                  /\ C28_AgainstWhite(l) >= 4500
            /\ ret[1] = HexBlack =>
                  /\ C28_AgainstBlack(l) >= C28_AgainstWhite(l)
                  /\ C28_AgainstBlack(l) >= 4500

C28_Witness ==
    /\ Applied("generateTextColor")
    /\ ret[1] = HexBlack
    /\ C28_AgainstBlack(HexLuminance(args[1])) < 5000
    /\ C28_AgainstWhite(HexLuminance(args[1])) > 4000

\* what call c delivers when it is the only call of the page
Alone(c) ==
    IF c.api = "simpleUrl"
    THEN IF Resource(c.url).loadable
         THEN [state |-> "resolved",
               color |-> <<simpleExtractDominantColor(LoadedImage(c.url), 50,
                                                      c.env)>>]
         ELSE [state |-> "rejected", color |-> <<>>]
    ELSE IF c.api = "video"
    THEN LET out == extractColorFromVideo(c.element, c.options, c.env)
         IN  [state |-> IF out.threw THEN "threw" ELSE "returned",
              color |-> out.color]
    ELSE IF SettlesAtOnce(c.url, c.options)
    THEN [state |-> "resolved",
          color |-> <<createFallbackColor(c.options["fallbackColor"])>>]
    ELSE IF Resource(c.url).loadable
    THEN LET out == extractDominantColor(LoadedImage(c.url),
                                         ImageExtractionOptions(c.options), c.env)
         IN  [state |-> IF out.threw THEN "rejected" ELSE "resolved",
              color |-> out.color]
    ELSE IF FallbackTruthy(c.options)
    THEN [state |-> "resolved",
          color |-> <<createFallbackColor(c.options["fallbackColor"])>>]
    ELSE [state |-> "rejected", color |-> <<>>]

\* C16: calls share no mutable state: whatever the order in which the calls
\* are made and the image loads complete, every call delivers what it
\* delivers alone on the same source and options, every Image belongs to one
\* call and carries that call's URL, and a call not yet made has delivered
\* nothing.
C16_CallsIndependent ==
    /\ \A i \in 1..Len(calls) :
          /\ outcomes[i] # <<>> => outcomes[i][1] = Alone(calls[i])
          /\ i > started => outcomes[i] = <<>>
    /\ \A k \in 1..Len(images) :
          /\ images[k].promise <= started
          /\ images[k].src = calls[images[k].promise].url
          /\ \A j \in 1..Len(images) :
                images[j].promise = images[k].promise => j = k
          /\ images[k].fired => outcomes[images[k].promise] # <<>>

C16_Witness ==
    /\ Len(images) = 2
    /\ images[2].fired
    /\ ~images[1].fired
    /\ started = 2
    /\ calls[1] # calls[2]
    /\ outcomes[2] # <<>>
    /\ outcomes[1] = <<>>
    /\ Alone(calls[1]) # Alone(calls[2])

=============================================================================
